---- MODULE Spec2Model ----
(***************************************************************************)
(* pair-agent: the position ledger (executor.ts) and the scan orchestrator *)
(* (index.ts) as a state machine.                                          *)
(*                                                                         *)
(* The program runs on one JavaScript event loop.  A handler runs without  *)
(* interruption from one await to the next; `cpu` names the handler that   *)
(* is in the middle of such a synchronous run ("none" between runs).       *)
(* Percentages are integers (entry prices divide 100 * price difference),  *)
(* z-scores are in tenths, time is counted in holding-period ticks.        *)
(***************************************************************************)
EXTENDS Integers, Sequences, FiniteSets, TLC

\* ------------------------------------------------------------------ bounds
MaxLedger == 2              \* positions the ledger may hold in a run
MaxTime == 1                \* last clock tick
MaxSeriesLen == 4           \* the longest price array handed to the analyzer
SqrtGrid == 100             \* square roots are kept to hundredths
MaxTasks == 5               \* schedule() calls made on the rate limiter
MaxRetries == 3             \* the largest `retries` withRetry is called with

\* ------------------------------------------------------- program constants
\* market_cache.ts, lines 34 and 39.
CACHE_TTL_MS == 3600000
FAILURE_COOLDOWN_MS == 60000
\* The perpetual markets the Data API lists when it is up.
PerpSymbols == {"SOL-PERP", "BTC-PERP", "ETH-PERP"}
MAX_CONCURRENCY == 4        \* market_cache.ts:252
MIN_INTERVAL_MS == 100      \* market_cache.ts:253
JITTER_MS == 25             \* market_cache.ts:254
StopLossPct == -3
TakeProfitPct == 6
MeanReversionThreshold == 5     \* 0.5, in tenths
MaxHoldingPeriod == 1           \* maxHoldingPeriodMs, in clock ticks

\* ------------------------------------------------------------ input sets
Symbols == {"A", "B", "C"}
CandidatePairs == {<<"A", "B">>, <<"A", "C">>}
FallbackPairs == << <<"A", "B">>, <<"A", "C">> >>
EntryPrice(s) == IF s = "A" THEN 100 ELSE 50
\* eliza.config.json: riskManagement.maxConcurrentTrades and
\* maxCorrelatedTrades, analysis.maxScansPerCycle, randomPairCount and
\* zScoreThreshold (1.5 and 2.5, in tenths) and correlationThreshold (0.85,
\* in hundredths)
Configs ==
  { [maxConcurrentTrades |-> 2, maxCorrelatedTrades |-> 1,
     maxScansPerCycle |-> 1, randomPairCount |-> 2, zScoreThreshold |-> 15,
     correlationThreshold |-> 85],
    [maxConcurrentTrades |-> 1, maxCorrelatedTrades |-> 2,
     maxScansPerCycle |-> 2, randomPairCount |-> 1, zScoreThreshold |-> 25,
     correlationThreshold |-> 85] }
\* The environment of a run is one of three: "exits", one position in a
\* moving market that gives no tradeable signal, watched by the exit monitor
\* and one full cycle while the clock runs; "twoOpen", the same handlers on
\* two positions opened in this run; "entries", a quiet market that gives
\* signals to two overlapping full cycles.
Scenarios == {"exits", "entries", "twoOpen"}
ZNull == 999                    \* getCurrentZScore returned null
ZValues == {3, 5, 24}           \* 0.3, 0.5 and 2.4, in tenths
Full == {"full1", "full2"}      \* two runs of runAnalysisCycle may overlap
Fast == {"fast"}                \* the exit-monitor timer's callback
Procs == Full \cup Fast
Handlers(sc) == IF sc = "entries" THEN {"full1", "full2"} ELSE {"fast", "full1"}
MarketPrices(sc, s) ==
  IF sc = "exits" THEN (IF s = "A" THEN {94, 97, 100} ELSE {50})
  ELSE IF sc = "twoOpen" THEN (IF s = "A" THEN {97, 100} ELSE {50})
  ELSE {EntryPrice(s)}
ZDraws(sc) ==
  IF sc = "exits" THEN ZValues \cup {ZNull}
  ELSE IF sc = "twoOpen" THEN {3, ZNull} ELSE {ZNull}
\* What fetchPairData and analyzePair give for a candidate: no data (too few
\* price points, a client rejection), or a result with its z-score, in
\* tenths, and whether its correlation reaches correlationThreshold.
NoData == [kind |-> "nodata", zScore |-> 0, corrOk |-> FALSE]
\* getMarketIndex gave undefined for a symbol of a fallback pair.
NoMarket == [kind |-> "nomarket", zScore |-> 0, corrOk |-> FALSE]
Result(z, corrOk) == [kind |-> "result", zScore |-> z, corrOk |-> corrOk]
AnalysisDraws(sc) ==
  IF sc = "entries"
  THEN {NoData, Result(25, FALSE)}
         \cup {Result(z, TRUE) : z \in {-18, 0, 25}}
  ELSE {Result(0, TRUE)}

\* The configurations of a scenario: both where positions are opened, the
\* one with room for two positions elsewhere.
ScenarioConfigs(sc) ==
  IF sc = "entries" THEN Configs
  ELSE {c \in Configs : c.maxConcurrentTrades = 2}

\* The outcomes a call of the store may have: it returns (TRUE), or it
\* throws; the store of the scenario "exits" is up.
StoreDraws(sc) == IF sc = "exits" THEN {TRUE} ELSE BOOLEAN

VARIABLES
  scenario,       \* which environment the run is in
  config,         \* eliza.config.json, read once at startup
  tradeHistory,   \* executor.ts: the in-memory trade log
  closing,        \* closeTrade calls past their guard, awaiting the store
  proc,           \* per handler: its position and its local variables
  cpu,            \* the handler in a synchronous run, or "none"; "exited"
                  \* once process.exit was called
  now,            \* Date.now()
  lastEval,       \* history: the exit evaluation the last step completed
  lastRisk,       \* history: the risk admission the last step decided
  lastStore,      \* history: the store call whose outcome the last step met
  firstCycle,     \* main is still awaiting its first runAnalysisCycle
  calc,           \* pair_analysis.ts, executor.ts: a call of one of the pure
                  \* functions, with its arguments and what it gave
  active,         \* market_cache.ts: the rate limiter's count of started tasks
  queue,          \* market_cache.ts: the task runners waiting in the limiter
  timers,         \* the tasks whose start a setTimeout of the limiter holds
  running,        \* the tasks whose fn() is in flight
  elapsed,        \* Date.now() - lastStart, up to MIN_INTERVAL_MS
  calls,          \* the schedule() calls made so far
  starts,         \* history: how many times each task's start has run
  settled,        \* history: what each fn() gave and how the promise of
                  \* schedule() was settled
  retry,          \* fetcher.ts: a call of withRetry, its arguments, the
                  \* attempts it made and what it gave
  marketCache,    \* market_cache.ts: cachedMarkets, the error fields, and
                  \* the ages Date.now() - lastCacheTime (up to CACHE_TTL_MS)
                  \* and Date.now() - lastFetchErrorAt (up to
                  \* FAILURE_COOLDOWN_MS)
  selector,       \* pair_selector.ts: its own cachedMarkets
  provider,       \* what the Data API answers now
  scan            \* a call of fetchAllMarkets or of
                  \* generateRandomPairCombinations, and what it gave

\* The agent's own state, the state of the pure functions' calls and the rate
\* limiter's state.
agentVars ==
  <<scenario, config, tradeHistory, closing, proc, cpu, now, lastEval, lastRisk,
    lastStore, firstCycle>>
limiterVars == <<active, queue, timers, running, elapsed, calls, starts, settled>>
marketVars == <<marketCache, selector, provider, scan>>
serviceVars == <<retry, marketVars>>
auxVars == <<calc, limiterVars, serviceVars>>
vars == <<agentVars, auxVars>>

\* ------------------------------------------------------------- trade rows
NoReason == [rule |-> "none", value |-> 0]

\* The action label executeTrade stores in the database row (the signal text).
DbAction(signalType) ==
  IF signalType = "long" THEN "LONG A, SHORT B" ELSE "SHORT A, LONG B"

\* The row insertTrade writes for a signal on pair <<a, b>>.
DbRow(a, b, signalType, ts) ==
  [pair |-> <<a, b>>, action |-> DbAction(signalType),
   longAsset |-> IF signalType = "long" THEN a ELSE b,
   shortAsset |-> IF signalType = "long" THEN b ELSE a,
   longPrice |-> IF signalType = "long" THEN EntryPrice(a) ELSE EntryPrice(b),
   shortPrice |-> IF signalType = "long" THEN EntryPrice(b) ELSE EntryPrice(a),
   zScore |-> IF signalType = "long" THEN -25 ELSE 25,
   timestamp |-> ts, status |-> "open", upnlPct |-> 0,
   closeTimestamp |-> 0, closeReason |-> NoReason, closePnL |-> 0]

\* The row of a trade an earlier run closed by take-profit (dbCloseTrade).
ClosedDbRow ==
  [DbRow("A", "B", "long", 0) EXCEPT
     !.status = "closed", !.upnlPct = 6,
     !.closeReason = [rule |-> "take-profit", value |-> 6], !.closePnL = 6]

\* dbTradeToLocal: symbolA/symbolB come from the pair text, action is the
\* row's label, the legs are the row's explicit columns.
dbTradeToLocal(row) ==
  [symbolA |-> row.pair[1], symbolB |-> row.pair[2],
   action |-> row.action,
   longAsset |-> row.longAsset, shortAsset |-> row.shortAsset,
   longPrice |-> row.longPrice, shortPrice |-> row.shortPrice,
   zScore |-> row.zScore,
   timestamp |-> row.timestamp, upnlPct |-> row.upnlPct,
   status |-> row.status,
   closeTimestamp |-> row.closeTimestamp, closeReason |-> row.closeReason,
   closePnL |-> row.closePnL,
   wideZ |-> FALSE, reloaded |-> TRUE]

\* A variant of the pushed record whose entry prices are taken by position
\* (A's price as longPrice) whatever the direction.
NewTrade_PricesByPosition(a, b, signalType, zScore, ts) ==
  [symbolA |-> a, symbolB |-> b,
   action |-> signalType,
   longAsset |-> IF signalType = "long" THEN a ELSE b,
   shortAsset |-> IF signalType = "long" THEN b ELSE a,
   longPrice |-> EntryPrice(a), shortPrice |-> EntryPrice(b),
   zScore |-> zScore,
   timestamp |-> ts, upnlPct |-> 0,
   status |-> "open",
   closeTimestamp |-> 0, closeReason |-> NoReason, closePnL |-> 0,
   wideZ |-> FALSE, reloaded |-> FALSE]

\* The local record executeTrade pushes.
NewTrade(a, b, signalType, zScore, ts) ==
  [symbolA |-> a, symbolB |-> b,
   action |-> signalType,
   longAsset |-> IF signalType = "long" THEN a ELSE b,
   shortAsset |-> IF signalType = "long" THEN b ELSE a,
   longPrice |-> IF signalType = "long" THEN EntryPrice(a) ELSE EntryPrice(b),
   shortPrice |-> IF signalType = "long" THEN EntryPrice(b) ELSE EntryPrice(a),
   zScore |-> zScore,
   timestamp |-> ts, upnlPct |-> 0,
   status |-> "open",
   closeTimestamp |-> 0, closeReason |-> NoReason, closePnL |-> 0,
   wideZ |-> FALSE, reloaded |-> FALSE]

\* What the store may hold at startup: rows written by earlier runs.
StoredLedgers ==
  { <<>>,
    << DbRow("A", "B", "long", 0) >>,
    << DbRow("A", "B", "short", 0) >>,
    << ClosedDbRow >> }

\* loadTradeHistory: tradeHistory := getAllTrades().map(dbTradeToLocal)
loadTradeHistory(rows) == [i \in DOMAIN rows |-> dbTradeToLocal(rows[i])]

\* The ledgers a run can hold while no handler is under way: reloaded from
\* the store at startup, or holding a trade executeTrade pushed earlier.
QuietLedgers(sc) ==
  IF sc = "twoOpen"
  THEN { << NewTrade("A", "B", "long", -25, 0), NewTrade("A", "C", "short", 25, 0) >> }
  ELSE {loadTradeHistory(rows) : rows \in StoredLedgers}
         \cup (IF sc = "exits"
               THEN { << NewTrade("A", "B", "long", -25, 0) >>,
                      << NewTrade("A", "B", "short", 25, 0) >> }
               ELSE {})

\* ---------------------------------------------------------------- ledger
\* getOpenTrades: tradeHistory.filter(status = open), as indices in order.
getOpenTrades(th) ==
  SelectSeq([i \in 1..Len(th) |-> i], LAMBDA i : th[i].status = "open")

SeqRange(s) == {s[i] : i \in DOMAIN s}

\* symbolsToFetch: symbolA and symbolB of the given trades.
SymbolsOf(th, idxs) ==
  {th[i].symbolA : i \in SeqRange(idxs)} \cup {th[i].symbolB : i \in SeqRange(idxs)}

Abs(x) == IF x < 0 THEN -x ELSE x

\* checkExitConditions, lines 600-607: the legs are chosen by the action label.
ExitPnL(t, priceA, priceB) ==
  LET currentLong == IF t.action = "long" THEN priceA ELSE priceB
      currentShort == IF t.action = "long" THEN priceB ELSE priceA
      longRet == IF t.longPrice > 0
                 THEN ((currentLong - t.longPrice) * 100) \div t.longPrice ELSE 0
      shortRet == IF t.shortPrice > 0
                  THEN ((t.shortPrice - currentShort) * 100) \div t.shortPrice ELSE 0
  IN longRet + shortRet

\* updateUPnLForOpenTrades, lines 24-29: the legs are longAsset/shortAsset.
RefreshPnL(t, currentLong, currentShort) ==
  ((currentLong - t.longPrice) * 100) \div t.longPrice
    + ((t.shortPrice - currentShort) * 100) \div t.shortPrice

\* A variant of the upnlPct write that also resets the status.
MarkToMarket_Reopens(t, pnl) == [t EXCEPT !.upnlPct = pnl, !.status = "open"]

\* A variant of the upnlPct write that also rewrites the action label.
MarkToMarket_Relabels(t, pnl) == [t EXCEPT !.upnlPct = pnl, !.action = "long"]

\* trade.upnlPct = ...
MarkToMarket(t, pnl) == [t EXCEPT !.upnlPct = pnl]

\* A variant of checks 1-3 that tests the holding period first.
FirstRule_HoldFirst(pnl, hold) ==
  IF hold >= MaxHoldingPeriod THEN "max-holding"
  ELSE IF pnl <= StopLossPct THEN "stop-loss"
  ELSE IF pnl >= TakeProfitPct THEN "take-profit"
  ELSE "none"

\* A variant of checks 1-3 whose stop-loss test ignores stopLossPct.
FirstRule_LooseStop(pnl, hold) ==
  IF pnl <= 0 THEN "stop-loss"
  ELSE IF pnl >= TakeProfitPct THEN "take-profit"
  ELSE IF hold >= MaxHoldingPeriod THEN "max-holding"
  ELSE "none"

\* checkExitConditions, checks 1-3, in the order of the code.
FirstRule(pnl, hold) ==
  IF pnl <= StopLossPct THEN "stop-loss"
  ELSE IF pnl >= TakeProfitPct THEN "take-profit"
  ELSE IF hold >= MaxHoldingPeriod THEN "max-holding"
  ELSE "none"

\* A variant of check 4 with a strict comparison.
MeanReverted_Strict(z) == z # ZNull /\ Abs(z) < MeanReversionThreshold

\* checkExitConditions, check 4.
MeanReverted(z) == z # ZNull /\ Abs(z) <= MeanReversionThreshold

\* The value a reason string carries.
ReasonOf(rule, pnl, hold, z) ==
  [rule |-> rule,
   value |-> IF rule \in {"stop-loss", "take-profit"} THEN pnl
             ELSE IF rule = "max-holding" THEN hold ELSE z]

\* closeTrade, line 538: const closePnL = trade.upnlPct ?? 0
ClosePnLOf(t) == t.upnlPct

\* A variant of closeTrade without the already-closed guard.
closeTrade_Unguarded(th, cl, i, reason, by) ==
  cl \cup {[idx |-> i, reason |-> reason, closePnL |-> ClosePnLOf(th[i]),
            closeTimestamp |-> now, by |-> by]}

\* closeTrade up to its first await: the guard, then the captured values.
\* Every trade of the ledger has a store id, so the call always awaits.
closeTrade(th, cl, i, reason, by) ==
  IF th[i].status = "closed" THEN cl
  ELSE cl \cup {[idx |-> i, reason |-> reason, closePnL |-> ClosePnLOf(th[i]),
                 closeTimestamp |-> now, by |-> by]}

\* A variant of line 554 that reads upnlPct when the store call returns.
ClosePnLWritten_Late(c, t) == t.upnlPct

\* closeTrade, line 554: trade.closePnL = closePnL (the captured local).
ClosePnLWritten(c, t) == c.closePnL

\* closeTrade after the store call (which may have failed): lines 551-554.
CloseApply(t, c) ==
  [t EXCEPT !.status = "closed",
            !.closeTimestamp = c.closeTimestamp,
            !.closeReason = c.reason,
            !.closePnL = ClosePnLWritten(c, t)]

\* ------------------------------------------------------------- handlers
NoCur == [pnl |-> 0, hold |-> 0, priceA |-> 0, priceB |-> 0]
NoCand ==
  [pair |-> <<"A", "B">>, signalType |-> "long", zScore |-> 0, timestamp |-> 0]
Idle ==
  [pc |-> "idle", syms |-> {}, snap |-> <<>>, k |-> 0, cur |-> NoCur,
   initialOpen |-> 0, scanCount |-> 0, left |-> 0, fb |-> 0,
   cand |-> NoCand, signalFound |-> FALSE, opened |-> 0, m |-> 0]

NoEval ==
  [idx |-> 0, wasOpen |-> FALSE, priceA |-> 0, priceB |-> 0, pnl |-> 0,
   hold |-> 0, z |-> ZNull, zEvaluated |-> FALSE, wideZ |-> FALSE,
   issued |-> "none", by |-> "none", path |-> "none"]

NoRisk ==
  [by |-> "none", pair |-> <<"A", "B">>, outcome |-> "none",
   signalType |-> "none", admitted |-> FALSE]

NoStore == [op |-> "none", idx |-> 0, ok |-> TRUE, by |-> "none"]

\* An optional value: undefined, or a value.
Undefined == {}
Just(v) == {v}
Defined(o) == o # {}
The(o) == CHOOSE v \in o : TRUE

\* No call of withRetry was made.
NoRetry ==
  [pc |-> "none", retries |-> 0, delay |-> 0, attempts |-> <<>>, waits |-> <<>>,
   out |-> <<>>]

\* market_cache.ts, lines 32-41: no market list is cached (lastCacheTime and
\* lastFetchErrorAt are 0).
ColdCache ==
  [cachedMarkets |-> Undefined, age |-> CACHE_TTL_MS, failed |-> FALSE,
   errorAge |-> FAILURE_COOLDOWN_MS, lastFetchErrorStatus |-> Undefined]
\* No call of the market cache or of the pair selector was made.
NoScan ==
  [pc |-> "idle", caller |-> "none", pairCount |-> 0, fresh |-> FALSE,
   had |-> Undefined, requested |-> FALSE, failed |-> FALSE, threw |-> FALSE,
   out |-> Undefined, batch |-> <<>>]
\* pair_selector.ts, line 157, and the module state of market_cache.ts at
\* load time; the Data API is up.
MarketAtRest ==
  /\ marketCache = ColdCache
  /\ selector = [cachedMarkets |-> Undefined]
  /\ provider = [markets |-> "up", twap |-> PerpSymbols]
  /\ scan = NoScan
ServicesAtRest == retry = NoRetry /\ MarketAtRest

\* No pure function is being called.
NoCalc == [fn |-> "none", pc |-> "done", in |-> <<>>, out |-> <<>>]

\* market_cache.ts, lines 256-258: active = 0, lastStart = 0 (long ago), an
\* empty queue; no schedule() call was made.  `elapsed` is Date.now() -
\* lastStart in milliseconds, kept up to MIN_INTERVAL_MS; `timers` are the
\* pending setTimeout(start, wait) calls with the time each has left;
\* `running` are the tasks whose fn() was called and has not settled.
LimiterInit ==
  /\ active = 0
  /\ queue = <<>>
  /\ timers = {}
  /\ running = {}
  /\ elapsed = MIN_INTERVAL_MS
  /\ calls = 0
  /\ starts = [task \in 1..MaxTasks |-> 0]
  /\ settled = {}

Init ==
  /\ calc = NoCalc
  /\ LimiterInit
  /\ ServicesAtRest
  /\ scenario \in Scenarios
  /\ config \in ScenarioConfigs(scenario)
  /\ tradeHistory \in QuietLedgers(scenario)
  /\ closing = {}
  /\ proc = [p \in Procs |-> Idle]
  /\ cpu = "none"
  /\ now = 0
  /\ lastEval = NoEval
  /\ lastRisk = NoRisk
  /\ lastStore = NoStore
  /\ firstCycle = \A i \in DOMAIN tradeHistory : tradeHistory[i].reloaded

\* What the price sources may answer for a symbol: a price of the market, or
\* a number that is not a price (zero, a negative number).
OracleReadings(sc, s) == MarketPrices(sc, s) \cup {0, -1}

\* A variant of the price fetch that stores whatever the source answered.
latestPrice_Unchecked(reading) == reading

\* The entry the price fetch leaves in latestPriceMap: fetchCurrentPrice
\* returns a reading only when it is finite and > 0 and throws otherwise, and
\* the catch stores 0.
latestPrice(reading) == IF reading > 0 THEN reading ELSE 0

\* The price latestPriceMap gives for a symbol: 0 when the symbol was not in
\* symbolsToFetch (latestPriceMap[symbol] ?? 0), else the entry of its fetch.
PriceReads(syms, s) ==
  IF s \in syms
  THEN {latestPrice(reading) : reading \in OracleReadings(scenario, s)}
  ELSE {0}

\* A timer's callback is modelled as starting only once the store calls its
\* previous run left in flight have returned.
Settled(p) == \A c \in closing : c.by # p

\* The handlers of the scenario.  main sets the exit-monitor timer, then
\* calls and awaits the first runAnalysisCycle, and only then sets the timer
\* of the later cycles (lines 685-706).
MayStart(p) ==
  /\ p \in Handlers(scenario)
  /\ firstCycle =>
       IF p \in Full THEN p = "full1" ELSE proc["full1"].pc # "idle"

OpenCount(th) == Len(getOpenTrades(th))

\* calculatePerformanceMetrics(...).totalTrades > 0: some trade is closed, and
\* savePerformanceMetrics is then awaited.
SavesMetrics(th) == \E i \in DOMAIN th : th[i].status = "closed"

\* The store call of savePerformanceMetrics, as lastStore records it.
MetricsStore(saved, p) == [op |-> "metrics", idx |-> 0, ok |-> saved, by |-> p]

\* Date.now() advances between handler runs.
Tick ==
  /\ cpu = "none"
  /\ scenario = "exits"
  /\ now < MaxTime
  /\ now' = now + 1
  /\ lastEval' = NoEval
  /\ lastRisk' = NoRisk
  /\ lastStore' = NoStore
  /\ UNCHANGED <<auxVars, scenario, config, firstCycle, tradeHistory, closing, proc,
                 cpu>>

\* performQuickExitCheck, lines 207-222, started by the timer (lines 685-690)
\* only when a trade is open; it suspends on the first price fetch.
FastStart(p) ==
  /\ p \in Fast
  /\ cpu = "none"
  /\ proc[p].pc = "idle"
  /\ Settled(p)
  /\ MayStart(p)
  /\ Len(getOpenTrades(tradeHistory)) > 0
  /\ LET open == getOpenTrades(tradeHistory) IN
       proc' = [proc EXCEPT ![p] = [Idle EXCEPT !.pc = "exitFetch",
                                      !.syms = SymbolsOf(tradeHistory, open),
                                      !.initialOpen = Len(open)]]
  /\ lastEval' = NoEval
  /\ lastRisk' = NoRisk
  /\ lastStore' = NoStore
  /\ UNCHANGED <<auxVars, scenario, config, firstCycle, tradeHistory, closing, cpu,
                 now>>

\* The prices are in: checkExitConditions is called and takes its own
\* snapshot of the open trades (line 587).
ExitFetchDone(p) ==
  /\ cpu = "none"
  /\ proc[p].pc = "exitFetch"
  /\ proc' = [proc EXCEPT ![p].pc = "exitLoop",
                          ![p].snap = getOpenTrades(tradeHistory),
                          ![p].k = 1]
  /\ cpu' = p
  /\ lastEval' = NoEval
  /\ lastRisk' = NoRisk
  /\ lastStore' = NoStore
  /\ UNCHANGED <<auxVars, scenario, config, firstCycle, tradeHistory, closing, now>>

\* checkExitConditions, one iteration of the loop up to its await (or its
\* continue): lines 591-644.
ExitEval(p) ==
  /\ cpu = p
  /\ proc[p].pc = "exitLoop"
  /\ proc[p].k <= Len(proc[p].snap)
  /\ LET i == proc[p].snap[proc[p].k]
         t == tradeHistory[i]
     IN \E priceA \in PriceReads(proc[p].syms, t.symbolA),
           priceB \in PriceReads(proc[p].syms, t.symbolB),
           z \in ZDraws(scenario) :
       LET pnl == ExitPnL(t, priceA, priceB)
           hold == now - t.timestamp
           rule == FirstRule(pnl, hold)
           marked == [tradeHistory EXCEPT ![i] = MarkToMarket(t, pnl)]
           seen == [NoEval EXCEPT !.idx = i, !.wasOpen = (t.status = "open"),
                      !.priceA = priceA, !.priceB = priceB, !.z = z,
                      !.wideZ = t.wideZ, !.by = p]
       IN IF priceA = 0 \/ priceB = 0
          THEN \* price data unavailable: continue
               /\ proc' = [proc EXCEPT ![p].k = @ + 1]
               /\ lastEval' = [seen EXCEPT !.path = "skipped"]
               /\ UNCHANGED <<tradeHistory, closing, cpu>>
          ELSE IF rule # "none"
          THEN \* checks 1-3: closeTrade is called and not awaited
               /\ tradeHistory' = marked
               /\ closing' = closeTrade(marked, closing, i,
                               ReasonOf(rule, pnl, hold, ZNull), p)
               /\ proc' = [proc EXCEPT ![p].k = @ + 1]
               /\ lastEval' = [seen EXCEPT !.pnl = pnl, !.hold = hold,
                                 !.issued = rule, !.path = "checked"]
               /\ UNCHANGED cpu
          ELSE \* check 4 awaits getCurrentZScore
               /\ z = ZNull
               /\ tradeHistory' = marked
               /\ proc' = [proc EXCEPT ![p].pc = "awaitZ",
                             ![p].cur = [pnl |-> pnl, hold |-> hold,
                                         priceA |-> priceA, priceB |-> priceB]]
               /\ cpu' = "none"
               /\ lastEval' = NoEval
               /\ UNCHANGED closing
  /\ lastRisk' = NoRisk
  /\ lastStore' = NoStore
  /\ UNCHANGED <<auxVars, scenario, config, firstCycle, now>>

\* getCurrentZScore returns: check 4, lines 647-658.
ZReturn(p) ==
  /\ cpu = "none"
  /\ proc[p].pc = "awaitZ"
  /\ LET i == proc[p].snap[proc[p].k]
         t == tradeHistory[i]
         c == proc[p].cur
     IN \E z \in ZDraws(scenario) :
       LET seen == [NoEval EXCEPT !.idx = i, !.wasOpen = (t.status = "open"),
                      !.priceA = c.priceA, !.priceB = c.priceB,
                      !.pnl = c.pnl, !.hold = c.hold, !.z = z,
                      !.zEvaluated = TRUE, !.wideZ = t.wideZ, !.by = p,
                      !.path = "checked"]
           noted == [tradeHistory EXCEPT ![i].wideZ =
                      @ \/ (z # ZNull /\ Abs(z) > MeanReversionThreshold)]
       IN /\ tradeHistory' = noted
          /\ IF MeanReverted(z)
             THEN /\ closing' = closeTrade(tradeHistory, closing, i,
                                  ReasonOf("mean-reversion", c.pnl, c.hold, z), p)
                  /\ lastEval' = [seen EXCEPT !.issued = "mean-reversion"]
             ELSE /\ closing' = closing
                  /\ lastEval' = seen
  /\ proc' = [proc EXCEPT ![p].pc = "exitLoop", ![p].k = @ + 1, ![p].cur = NoCur]
  /\ cpu' = p
  /\ lastRisk' = NoRisk
  /\ lastStore' = NoStore
  /\ UNCHANGED <<auxVars, scenario, config, firstCycle, now>>

\* A variant of the loop's end that leaves the last trade of the list out.
ExitPassDone_Early(q) == q.k >= Len(q.snap)

\* checkExitConditions, line 591: the for loop over its list of open trades
\* has run out, and the call returns.
ExitPassDone(q) == q.k > Len(q.snap)

\* performQuickExitCheck after checkExitConditions returned, lines 281-299:
\* a failure of the metrics save rejects the call, and the timer's callback
\* catches it (lines 686-693).
FastAfterExit(p) ==
  /\ p \in Fast
  /\ cpu = p
  /\ proc[p].pc = "exitLoop"
  /\ ExitPassDone(proc[p])
  /\ \E saved \in StoreDraws(scenario) :
       LET closedCount == proc[p].initialOpen - OpenCount(tradeHistory)
           saves == closedCount > 0 /\ SavesMetrics(tradeHistory)
       IN /\ saved \/ saves
          /\ lastStore' = IF saves THEN MetricsStore(saved, p) ELSE NoStore
  /\ proc' = [proc EXCEPT ![p] = Idle]
  /\ cpu' = "none"
  /\ lastEval' = NoEval
  /\ lastRisk' = NoRisk
  /\ UNCHANGED <<auxVars, scenario, config, firstCycle, tradeHistory, closing, now>>

\* ------------------------------------------------------ the full cycle
\* analyzeSinglePair, lines 154-157: the open trades that share a symbol.
CorrelatedCount(th, symbolA, symbolB) ==
  Cardinality({i \in SeqRange(getOpenTrades(th)) :
                 \/ th[i].symbolA = symbolA \/ th[i].symbolB = symbolB
                 \/ th[i].symbolA = symbolB \/ th[i].symbolB = symbolA})

\* A variant of the risk checks without the concurrent-trades limit.
RiskAdmits_NoCap(th, symbolA, symbolB) ==
  ~(CorrelatedCount(th, symbolA, symbolB) >= config.maxCorrelatedTrades)

\* analyzeSinglePair, lines 144-162: neither limit is reached.
RiskAdmits(th, symbolA, symbolB) ==
  /\ ~(OpenCount(th) >= config.maxConcurrentTrades)
  /\ ~(CorrelatedCount(th, symbolA, symbolB) >= config.maxCorrelatedTrades)

Inserting == {q \in Procs : proc[q].pc = "insert"}

\* runAnalysisCycle rejected.  main awaits its first call inside the try whose
\* catch calls process.exit(1) (lines 697, 715-718); the timer's callback
\* catches and logs (lines 700-706).
Rejected == IF firstCycle THEN "exited" ELSE "none"

\* runAnalysisCycle, lines 305-329: it suspends on the price fetch when a
\* trade is open and goes straight on to the scan loop otherwise.
FullStart(p) ==
  /\ p \in Full
  /\ cpu = "none"
  /\ proc[p].pc = "idle"
  /\ Settled(p)
  /\ MayStart(p)
  /\ LET open == getOpenTrades(tradeHistory) IN
       IF Len(open) > 0
       THEN /\ proc' = [proc EXCEPT ![p] = [Idle EXCEPT !.pc = "exitFetch",
                                          !.syms = SymbolsOf(tradeHistory, open),
                                          !.initialOpen = Len(open)]]
            /\ cpu' = "none"
       ELSE /\ proc' = [proc EXCEPT ![p] = [Idle EXCEPT !.pc = "scan"]]
            /\ cpu' = p
  /\ lastEval' = NoEval
  /\ lastRisk' = NoRisk
  /\ lastStore' = NoStore
  /\ UNCHANGED <<auxVars, scenario, config, firstCycle, tradeHistory, closing, now>>

\* runAnalysisCycle after checkExitConditions returned: lines 400-419.
FullAfterExit(p) ==
  /\ p \in Full
  /\ cpu = p
  /\ proc[p].pc = "exitLoop"
  /\ ExitPassDone(proc[p])
  /\ \E saved \in StoreDraws(scenario) :
       LET closedInCycle == proc[p].initialOpen - OpenCount(tradeHistory)
           saves == closedInCycle > 0 /\ SavesMetrics(tradeHistory)
       IN /\ saved \/ saves
          /\ IF saves /\ ~saved
             THEN \* savePerformanceMetrics rethrows: the cycle rejects
                  /\ proc' = [proc EXCEPT ![p] = Idle]
                  /\ cpu' = Rejected
             ELSE /\ proc' = [proc EXCEPT ![p] = [Idle EXCEPT !.pc = "scan"]]
                  /\ cpu' = IF saves THEN "none" ELSE p
          /\ lastStore' = IF saves THEN MetricsStore(saved, p) ELSE NoStore
  /\ lastEval' = NoEval
  /\ lastRisk' = NoRisk
  /\ UNCHANGED <<auxVars, scenario, config, firstCycle, tradeHistory, closing, now>>

\* The head of the scan loop: lines 422-435.
ScanTop(p) ==
  /\ cpu \in {"none", p}
  /\ proc[p].pc = "scan"
  /\ IF OpenCount(tradeHistory) >= config.maxConcurrentTrades
     THEN /\ proc' = [proc EXCEPT ![p].pc = "refresh"]
          /\ cpu' = p
     ELSE /\ proc' = [proc EXCEPT ![p].pc = "batch", ![p].scanCount = @ + 1]
          /\ cpu' = "none"
  /\ lastEval' = NoEval
  /\ lastRisk' = NoRisk
  /\ lastStore' = NoStore
  /\ UNCHANGED <<auxVars, scenario, config, firstCycle, tradeHistory, closing, now>>

\* generateRandomPairCombinations returns up to randomPairCount pairs.
BatchReady(p) ==
  /\ cpu = "none"
  /\ proc[p].pc = "batch"
  /\ \E n \in 0..config.randomPairCount :
       /\ proc' = [proc EXCEPT ![p].left = n,
                               ![p].pc = IF n = 0 THEN "afterBatch" ELSE "analyze"]
       /\ cpu' = IF n = 0 THEN p ELSE "none"
  /\ lastEval' = NoEval
  /\ lastRisk' = NoRisk
  /\ lastStore' = NoStore
  /\ UNCHANGED <<auxVars, scenario, config, firstCycle, tradeHistory, closing, now>>

\* A variant in which a false return ends the batch or the fallback list.
AfterNoSignal_EndsList(q) ==
  IF q.fb > 0
  THEN [q EXCEPT !.pc = "refresh"]
  ELSE [q EXCEPT !.left = 0, !.pc = "afterBatch"]

\* Where the loops go after analyzeSinglePair returned false: the next pair
\* of the batch (lines 454-459) or of the fallback list (lines 502-507).
AfterNoSignal(q) ==
  IF q.fb > 0
  THEN IF q.fb < Len(FallbackPairs)
       THEN [q EXCEPT !.fb = @ + 1]
       ELSE [q EXCEPT !.pc = "refresh"]
  ELSE IF q.left > 1
       THEN [q EXCEPT !.left = @ - 1]
       ELSE [q EXCEPT !.left = 0, !.pc = "afterBatch"]

\* ---------------------------------------------------- numbers of the analyzer
\* A JavaScript number as the statistics use it: a ratio <<n, d>> of integers
\* in lowest terms with d > 0, or one of the three values that are not
\* finite, written with the denominator 0: Infinity <<1, 0>>, -Infinity
\* <<-1, 0>> and NaN <<0, 0>>.  The arithmetic is exact (no rounding, no
\* overflow, one zero); division by zero and the operations on values that
\* are not finite follow IEEE 754.
Sign(x) == IF x > 0 THEN 1 ELSE IF x < 0 THEN -1 ELSE 0

RECURSIVE Gcd(_, _)
Gcd(a, b) == IF b = 0 THEN a ELSE Gcd(b, a % b)

Num(n, d) ==
  IF d = 0 THEN <<Sign(n), 0>>
  ELSE LET g == Gcd(Abs(n), Abs(d)) IN <<(Sign(d) * n) \div g, Abs(d) \div g>>

Whole(k) == <<k, 1>>
Infinity == <<1, 0>>
NaN == <<0, 0>>

isNaN(x) == x = NaN
isFinite(x) == x[2] # 0

Neg(x) == <<-x[1], x[2]>>
Add(x, y) ==
  IF x[2] = 0 /\ y[2] = 0
  THEN (IF x = y THEN x ELSE NaN)
  ELSE IF x[2] = 0 \/ y[2] = 0
  THEN Num(x[1] * y[2] + y[1] * x[2], 0)
  ELSE LET g == Gcd(x[2], y[2]) IN
         Num(x[1] * (y[2] \div g) + y[1] * (x[2] \div g), (x[2] \div g) * y[2])
Sub(x, y) == Add(x, Neg(y))
Mul(x, y) ==
  IF x[2] = 0 \/ y[2] = 0
  THEN Num(x[1] * y[1], 0)
  ELSE LET g == Gcd(Abs(x[1]), y[2])
           h == Gcd(Abs(y[1]), x[2])
       IN Num((x[1] \div g) * (y[1] \div h), (x[2] \div h) * (y[2] \div g))
Inv(x) == Num(x[2], x[1])
Div(x, y) == Mul(x, Inv(y))

\* x < y and x <= y: false when either side is NaN.
Lt(x, y) ==
  /\ ~isNaN(x) /\ ~isNaN(y)
  /\ IF x[2] = 0 /\ y[2] = 0 THEN x[1] < y[1] ELSE x[1] * y[2] < y[1] * x[2]
Le(x, y) ==
  /\ ~isNaN(x) /\ ~isNaN(y)
  /\ IF x[2] = 0 /\ y[2] = 0 THEN x[1] <= y[1] ELSE x[1] * y[2] <= y[1] * x[2]

\* Math.abs, Math.max and Math.min: NaN if an argument is NaN.
MathAbs(x) == <<Abs(x[1]), x[2]>>
MathMax(x, y) == IF isNaN(x) \/ isNaN(y) THEN NaN ELSE IF Lt(x, y) THEN y ELSE x
MathMin(x, y) == IF isNaN(x) \/ isNaN(y) THEN NaN ELSE IF Lt(y, x) THEN y ELSE x

\* The sum of an array, and mathjs's mean of a non-empty one.
RECURSIVE Sum(_)
Sum(s) == IF Len(s) = 0 THEN Whole(0) ELSE Add(Head(s), Sum(Tail(s)))
mean(s) == Div(Sum(s), Whole(Len(s)))

\* An array of whole numbers as an array of numbers.
Numbers(s) == [i \in DOMAIN s |-> Whole(s[i])]

\* pair_analysis.ts, lines 30-37.
calculateReturns(prices) ==
  [i \in 1..(Len(prices) - 1) |->
     Div(Sub(prices[i + 1], prices[i]), prices[i])]

\* pair_analysis.ts, lines 80-106, for two arrays of the same length, two
\* prices or more (analyzePair has checked both, lines 307-312).
calculateBeta(pricesA, pricesB) ==
  LET returnsA == calculateReturns(pricesA)
      returnsB == calculateReturns(pricesB)
      meanA == mean(returnsA)
      meanB == mean(returnsB)
      diffA(i) == Sub(returnsA[i], meanA)
      diffB(i) == Sub(returnsB[i], meanB)
      covariance == Sum([i \in DOMAIN returnsA |-> Mul(diffA(i), diffB(i))])
      varianceA == Sum([i \in DOMAIN returnsA |-> Mul(diffA(i), diffA(i))])
  IN IF varianceA = Whole(0) THEN Whole(0) ELSE Div(covariance, varianceA)

\* pair_analysis.ts, lines 116-122.
calculateSpread(pricesA, pricesB, beta) ==
  [i \in DOMAIN pricesA |-> Sub(pricesA[i], Mul(beta, pricesB[i]))]

\* Math.sqrt, rounded up to a multiple of 1 / SqrtGrid: exact on a square of
\* such a multiple, zero only at zero.  `scaled` is x * SqrtGrid^2 rounded
\* up to a whole number, by long division.
Sqrt(x) ==
  IF isNaN(x) \/ Lt(x, Whole(0)) THEN NaN
  ELSE IF ~isFinite(x) THEN Infinity
  ELSE LET n == x[1]
           d == x[2]
           t1 == (n % d) * SqrtGrid
           t2 == (t1 % d) * SqrtGrid
           scaled == (n \div d) * SqrtGrid * SqrtGrid + (t1 \div d) * SqrtGrid
                       + (t2 \div d) + (IF t2 % d > 0 THEN 1 ELSE 0)
           k == CHOOSE j \in 0..(SqrtGrid * (n \div d + 1)) :
                  /\ j * j >= scaled
                  /\ j = 0 \/ (j - 1) * (j - 1) < scaled
       IN Num(k, SqrtGrid)

\* mathjs's std(array, 'unbiased') of a non-empty array: the square root of
\* the sum of squared deviations over n - 1, and 0 for a single value.
std(s) ==
  LET m == mean(s)
      squares == Sum([i \in DOMAIN s |-> Mul(Sub(s[i], m), Sub(s[i], m))])
  IN IF Len(s) = 1 THEN Whole(0) ELSE Sqrt(Div(squares, Whole(Len(s) - 1)))

\* pair_analysis.ts, lines 45-71, for two arrays of the same non-zero length.
correlation(x, y) ==
  LET meanX == mean(x)
      meanY == mean(y)
      diffX(i) == Sub(x[i], meanX)
      diffY(i) == Sub(y[i], meanY)
      numerator == Sum([i \in DOMAIN x |-> Mul(diffX(i), diffY(i))])
      denomX == Sum([i \in DOMAIN x |-> Mul(diffX(i), diffX(i))])
      denomY == Sum([i \in DOMAIN x |-> Mul(diffY(i), diffY(i))])
  IN IF denomX = Whole(0) \/ denomY = Whole(0) THEN Whole(0)
     ELSE Div(numerator, Sqrt(Mul(denomX, denomY)))

\* -Math.log(2) / Math.log(1 + rho), line 159.  The logarithm of a negative
\* number is NaN, of 0 is -Infinity, of 1 is 0.  Between 0 and 1 the quotient
\* is positive and finite, and it is given to the precision of the numbers
\* the program compares a half-life with: it reaches T periods exactly when
\* 1 + rho reaches 2^(-1/T), and the value is the largest T reached of 1, 8,
\* 24, 48 and 1000 (1/2 when below 1, 1001 when beyond 1000).  Above 1 the
\* quotient is negative and finite, given as -1.
HalfLifeCuts ==
  << <<Num(1, 2), 0>>, <<Whole(1), 50000>>, <<Whole(8), 91700>>,
     <<Whole(24), 97153>>, <<Whole(48), 98566>>, <<Whole(1001), 99931>> >>
\* n * 10^k / d rounded down to a whole number, by long division (0 <= n, 0 < d).
RECURSIVE Shifted(_, _, _)
Shifted(n, d, k) ==
  IF k = 0 THEN n \div d
  ELSE (n \div d) * 10^k + Shifted((n % d) * 10, d, k - 1)
HalfLifeOf(rho) ==
  LET x == Add(Whole(1), rho) IN
    IF isNaN(x) \/ Lt(x, Whole(0)) THEN NaN
    ELSE IF x = Whole(0) \/ ~isFinite(x) THEN Whole(0)
    ELSE IF x = Whole(1) THEN Neg(Infinity)
    ELSE IF Lt(Whole(1), x) THEN Whole(-1)
    ELSE LET reached == {i \in DOMAIN HalfLifeCuts :
                           Shifted(x[1], x[2], 5) >= HalfLifeCuts[i][2]}
             top == CHOOSE i \in reached : \A j \in reached : j <= i
         IN HalfLifeCuts[top][1]

\* What a call gave: a value, or an exception.
Gave(v) == [threw |-> FALSE, value |-> v]
Threw == [threw |-> TRUE, value |-> NaN]

\* calculateHalfLife past its first line, lines 133-166: the AR(1) fit and
\* the sanity check.  mathjs's mean throws on an empty array.
FitHalfLife(spread) ==
  LET laggedSpread == SubSeq(spread, 1, Len(spread) - 1)
      deltaSpread == [i \in 1..(Len(spread) - 1) |-> Sub(spread[i + 1], spread[i])]
  IN IF Len(laggedSpread) = 0 THEN Threw
     ELSE
     LET meanLagged == mean(laggedSpread)
         meanDelta == mean(deltaSpread)
         diffLagged(i) == Sub(laggedSpread[i], meanLagged)
         diffDelta(i) == Sub(deltaSpread[i], meanDelta)
         numerator ==
           Sum([i \in DOMAIN laggedSpread |-> Mul(diffLagged(i), diffDelta(i))])
         denominator ==
           Sum([i \in DOMAIN laggedSpread |-> Mul(diffLagged(i), diffLagged(i))])
         rho == Div(numerator, denominator)
         halfLife == HalfLifeOf(rho)
     IN IF denominator = Whole(0) THEN Gave(Infinity)
        ELSE IF Le(Whole(0), rho) THEN Gave(Infinity)
        ELSE IF \/ ~isFinite(halfLife)
                \/ Lt(halfLife, Whole(0))
                \/ Lt(Whole(1000), halfLife)
        THEN Gave(Infinity)
        ELSE Gave(halfLife)

\* A variant of calculateHalfLife without the test of the array's length.
calculateHalfLife_NoLengthTest(spread) == FitHalfLife(spread)

\* pair_analysis.ts, lines 130-167.
calculateHalfLife(spread) ==
  IF Len(spread) < 3 THEN Gave(Infinity) ELSE FitHalfLife(spread)

\* A variant of the table whose rows for -2.57 and -2.0 are exchanged.
adfPValue_RowsExchanged(tStat) ==
  IF Lt(tStat, Num(-343, 100)) THEN Num(1, 100)
  ELSE IF Lt(tStat, Num(-286, 100)) THEN Num(5, 100)
  ELSE IF Lt(tStat, Num(-257, 100)) THEN Num(20, 100)
  ELSE IF Lt(tStat, Num(-200, 100)) THEN Num(10, 100)
  ELSE IF Lt(tStat, Num(-150, 100)) THEN Num(40, 100)
  ELSE IF Lt(tStat, Num(-100, 100)) THEN Num(60, 100)
  ELSE IF Lt(tStat, Num(-50, 100)) THEN Num(75, 100)
  ELSE Num(90, 100)

\* adfTest, lines 221-230: the p-value by the t-statistic's breakpoint.
adfPValue(tStat) ==
  IF Lt(tStat, Num(-343, 100)) THEN Num(1, 100)
  ELSE IF Lt(tStat, Num(-286, 100)) THEN Num(5, 100)
  ELSE IF Lt(tStat, Num(-257, 100)) THEN Num(10, 100)
  ELSE IF Lt(tStat, Num(-200, 100)) THEN Num(20, 100)
  ELSE IF Lt(tStat, Num(-150, 100)) THEN Num(40, 100)
  ELSE IF Lt(tStat, Num(-100, 100)) THEN Num(60, 100)
  ELSE IF Lt(tStat, Num(-50, 100)) THEN Num(75, 100)
  ELSE Num(90, 100)

\* pair_analysis.ts, lines 175-237.
adfTest(spread) ==
  IF Len(spread) < 10 THEN Whole(1)
  ELSE
  LET laggedSpread == SubSeq(spread, 1, Len(spread) - 1)
      currentSpread == SubSeq(spread, 2, Len(spread))
      meanLagged == mean(laggedSpread)
      meanCurrent == mean(currentSpread)
      diffLagged(i) == Sub(laggedSpread[i], meanLagged)
      diffCurrent(i) == Sub(currentSpread[i], meanCurrent)
      numerator ==
        Sum([i \in DOMAIN laggedSpread |-> Mul(diffLagged(i), diffCurrent(i))])
      denominator ==
        Sum([i \in DOMAIN laggedSpread |-> Mul(diffLagged(i), diffLagged(i))])
      rho == Div(numerator, denominator)
      alpha == Sub(meanCurrent, Mul(rho, meanLagged))
      residuals ==
        [i \in DOMAIN currentSpread |->
           Sub(currentSpread[i], Add(alpha, Mul(rho, laggedSpread[i])))]
      residualStd == std(residuals)
      tStat == Div(Sub(rho, Whole(1)), Div(residualStd, Sqrt(denominator)))
  IN IF denominator = Whole(0) THEN Whole(1)
     ELSE IF residualStd = Whole(0) THEN Whole(1)
     ELSE adfPValue(tStat)

\* pair_analysis.ts, lines 246-256.
testCointegration(pricesA, pricesB, beta) ==
  adfTest(calculateSpread(pricesA, pricesB, beta))

\* analyzePair, line 338.
isCointegrated(cointegrationPValue) == Lt(cointegrationPValue, Num(5, 100))

\* analyzePair, line 333.
zScoreOf(currentSpread, spreadMean, spreadStd) ==
  Div(Sub(currentSpread, spreadMean), spreadStd)

\* analyzePair, lines 342-348: the direction by the base band of 2.
signalTypeOf(zScore) ==
  IF Lt(Whole(2), zScore) THEN "short"
  ELSE IF Lt(zScore, Whole(-2)) THEN "long"
  ELSE "neutral"

\* pair_analysis.ts, lines 302-364, for two arrays of the same length, two
\* prices or more.  The Sharpe ratio and the volatility of the result, which
\* only the report and the optional filters read, are left out.
analyzePair(pricesA, pricesB) ==
  LET returnsA == calculateReturns(pricesA)
      returnsB == calculateReturns(pricesB)
      corr == correlation(returnsA, returnsB)
      beta == calculateBeta(pricesA, pricesB)
      spreadArray == calculateSpread(pricesA, pricesB, beta)
      spreadMean == mean(spreadArray)
      spreadStd == std(spreadArray)
      currentSpread == spreadArray[Len(spreadArray)]
      zScore == zScoreOf(currentSpread, spreadMean, spreadStd)
      cointegrationPValue == testCointegration(pricesA, pricesB, beta)
  IN [corr |-> corr, beta |-> beta, zScore |-> zScore, mean |-> spreadMean,
      std |-> spreadStd, spread |-> currentSpread,
      signalType |-> signalTypeOf(zScore),
      halfLife |-> calculateHalfLife(spreadArray).value,
      cointegrationPValue |-> cointegrationPValue,
      isCointegrated |-> isCointegrated(cointegrationPValue)]


\* meetsTradeSignalCriteria, lines 387-404: FALSE when the half-life filter
\* returns false.  `filters` is the function's optional config argument.
halfLifeGate(result, filters) ==
  IF ~Defined(filters) THEN TRUE
  ELSE LET enforceHL == IF Defined(The(filters).halfLifeEnforced)
                        THEN The(The(filters).halfLifeEnforced) ELSE TRUE
           maxHL == The(filters).maxHalfLife
           allow == The(filters).allowInfinityWithAdfBelow
       IN IF ~isFinite(result.halfLife)
          THEN IF Defined(allow) /\ Le(result.cointegrationPValue, The(allow))
               THEN TRUE
               ELSE ~enforceHL
          ELSE ~(/\ Defined(maxHL)
                 /\ \/ Lt(The(maxHL), result.halfLife)
                    \/ Lt(result.halfLife, Whole(1)))

\* A variant of the adjustment without the row for half-lives from 8 to 24.
effectiveZThreshold_NoFastRow(result, zScoreThreshold, filters) ==
  IF /\ Defined(filters) /\ The(filters).dynamicZScore = Just(TRUE)
     /\ isFinite(result.halfLife)
  THEN IF Lt(result.halfLife, Whole(24)) THEN Mul(zScoreThreshold, Num(70, 100))
       ELSE IF Lt(result.halfLife, Whole(48))
       THEN Mul(zScoreThreshold, Num(100, 100))
       ELSE Mul(zScoreThreshold, Num(130, 100))
  ELSE zScoreThreshold

\* meetsTradeSignalCriteria, lines 406-436.
effectiveZThreshold(result, zScoreThreshold, filters) ==
  IF /\ Defined(filters) /\ The(filters).dynamicZScore = Just(TRUE)
     /\ isFinite(result.halfLife)
  THEN IF Lt(result.halfLife, Whole(8)) THEN Mul(zScoreThreshold, Num(70, 100))
       ELSE IF Lt(result.halfLife, Whole(24))
       THEN Mul(zScoreThreshold, Num(85, 100))
       ELSE IF Lt(result.halfLife, Whole(48))
       THEN Mul(zScoreThreshold, Num(100, 100))
       ELSE Mul(zScoreThreshold, Num(130, 100))
  ELSE zScoreThreshold

\* meetsTradeSignalCriteria, lines 438-443.
meetsBasic(result, effectiveThreshold, corrThreshold) ==
  /\ Le(effectiveThreshold, MathAbs(result.zScore))
  /\ Le(corrThreshold, MathAbs(result.corr))

\* meetsTradeSignalCriteria, lines 445-465: FALSE when the Sharpe or the
\* volatility filter returns false.
qualityGate(result, filters) ==
  IF ~Defined(filters) THEN TRUE
  ELSE /\ ~(/\ Defined(The(filters).minSharpe)
             /\ Lt(result.sharpe, The(The(filters).minSharpe)))
       /\ ~(/\ Defined(The(filters).maxVolatility)
             /\ Lt(The(The(filters).maxVolatility), result.volatility))

\* pair_analysis.ts, lines 374-468.
meetsTradeSignalCriteria(result, zScoreThreshold, corrThreshold, filters) ==
  /\ halfLifeGate(result, filters)
  /\ meetsBasic(result, effectiveZThreshold(result, zScoreThreshold, filters),
                corrThreshold)
  /\ qualityGate(result, filters)

\* analyzeSinglePair, lines 116-120: the call passes no filter configuration.
meetsCriteriaOf(result, zScoreThreshold, correlationThreshold) ==
  meetsTradeSignalCriteria(result, zScoreThreshold, correlationThreshold,
                           Undefined)

\* A variant of the override that gives every aligned signal the direction
\* short.
AlignedSignal_AlwaysShort(result, meetsCriteria) ==
  IF meetsCriteria /\ result.signalType = "neutral"
  THEN "short"
  ELSE result.signalType

\* analyzeSinglePair, lines 133-137: a result that meets the criteria and is
\* neutral by the base band takes its direction from the sign of z.
AlignedSignal(result, meetsCriteria) ==
  IF meetsCriteria /\ result.signalType = "neutral"
  THEN (IF Lt(Whole(0), result.zScore) THEN "short" ELSE "long")
  ELSE result.signalType

\* The result analyzePair gave for a candidate of the agent, as far as the
\* call of lines 116-120 reads it: its z-score, its correlation and its
\* signal.
AnalysisResult(a) ==
  [zScore |-> Num(a.zScore, 10),
   corr |-> IF a.corrOk THEN Num(9, 10) ELSE Num(1, 2),
   signalType |-> signalTypeOf(Num(a.zScore, 10)),
   halfLife |-> Infinity, cointegrationPValue |-> Whole(1)]

\* The candidates a handler may be analysing: a pair of the batch, or the
\* fallback pair it has reached; a fallback pair may miss its market lookup.
CandidateDraws(q) ==
  IF q.fb > 0 THEN {FallbackPairs[q.fb]} ELSE CandidatePairs
OutcomeDraws(q) ==
  AnalysisDraws(scenario)
    \cup (IF q.fb > 0 /\ scenario = "entries" THEN {NoMarket} ELSE {})

\* analyzeSinglePair once fetchPairData returned or threw: lines 99-200 (and
\* the market lookup of the fallback loop, lines 478-484).  A result that
\* should be traded passes the risk limits and calls executeTrade, which
\* suspends on the store; anything else returns false.
AnalyzeDone(p) ==
  /\ cpu = "none"
  /\ proc[p].pc = "analyze"
  /\ \E pair \in CandidateDraws(proc[p]), a \in OutcomeDraws(proc[p]) :
       LET result == AnalysisResult(a)
           meetsCriteria ==
             /\ a.kind = "result"
             /\ meetsCriteriaOf(result, Num(config.zScoreThreshold, 10),
                                Num(config.correlationThreshold, 100))
           signalType ==
             IF a.kind = "result" THEN AlignedSignal(result, meetsCriteria)
             ELSE "neutral"
           shouldTrade == meetsCriteria /\ signalType # "neutral"
           admitted == shouldTrade /\ RiskAdmits(tradeHistory, pair[1], pair[2])
       IN /\ IF admitted
             THEN /\ Len(tradeHistory) + Cardinality(Inserting) < MaxLedger
                  /\ proc' = [proc EXCEPT ![p].pc = "insert",
                                ![p].cand = [pair |-> pair,
                                             signalType |-> signalType,
                                             zScore |-> a.zScore,
                                             timestamp |-> now]]
                  /\ cpu' = "none"
             ELSE /\ proc' = [proc EXCEPT ![p] = AfterNoSignal(@)]
                  /\ cpu' = IF proc'[p].pc = "analyze" THEN "none" ELSE p
          /\ lastRisk' = [by |-> p, pair |-> pair, outcome |-> a.kind,
                          signalType |-> IF shouldTrade THEN signalType ELSE "none",
                          admitted |-> admitted]
  /\ lastEval' = NoEval
  /\ lastStore' = NoStore
  /\ UNCHANGED <<auxVars, scenario, config, firstCycle, tradeHistory, closing, now>>

\* A variant of the push that empties the ledger first, as loadTradeHistory
\* does at startup.
pushTrade_AfterClear(th, trade) == <<trade>>

\* executeTrade, line 415: tradeHistory.push(trade).
pushTrade(th, trade) == Append(th, trade)

\* executeTrade after insertTrade, and analyzeSinglePair after it (lines
\* 168-200).  When the store threw, executeTrade logs and returns null (lines
\* 418-422) and analyzeSinglePair returns true all the same (line 181).
\* When it returned, the trade is pushed (lines 367-417), and the metrics are
\* saved if a trade is closed: savePerformanceMetrics rethrows a store
\* failure, which the catch of analyzeSinglePair turns into false.
\* `opened` counts the positions the cycle has pushed.
InsertDone(p) ==
  /\ cpu = "none"
  /\ proc[p].pc = "insert"
  /\ \E stored \in StoreDraws(scenario), saved \in StoreDraws(scenario) :
       LET c == proc[p].cand
           pushed == pushTrade(tradeHistory,
                               NewTrade(c.pair[1], c.pair[2], c.signalType,
                                        c.zScore, c.timestamp))
       IN /\ lastStore' = [op |-> "open", idx |-> Len(tradeHistory) + 1,
                           ok |-> stored, by |-> p]
          /\ IF ~stored
             THEN /\ saved
                  /\ tradeHistory' = tradeHistory
                  /\ proc' = [proc EXCEPT ![p].pc = "refresh",
                                ![p].cand = NoCand, ![p].signalFound = TRUE]
                  /\ cpu' = p
             ELSE /\ tradeHistory' = pushed
                  /\ IF SavesMetrics(pushed) /\ ~saved
                     THEN /\ proc' = [proc EXCEPT ![p] =
                                        AfterNoSignal([@ EXCEPT !.pc = "analyze",
                                                                !.cand = NoCand,
                                                                !.opened = @ + 1])]
                          /\ cpu' = IF proc'[p].pc = "analyze" THEN "none" ELSE p
                     ELSE /\ saved
                          /\ proc' = [proc EXCEPT ![p].pc = "refresh",
                                        ![p].cand = NoCand,
                                        ![p].signalFound = TRUE,
                                        ![p].opened = @ + 1]
                          /\ cpu' = IF SavesMetrics(pushed) THEN "none" ELSE p
  /\ lastEval' = NoEval
  /\ lastRisk' = NoRisk
  /\ UNCHANGED <<auxVars, scenario, config, firstCycle, closing, now>>

\* A variant of the budget test that allows one batch more.
BudgetExhausted_OneMore(scanCount, maxScans) == scanCount > maxScans

\* runAnalysisCycle, line 464: if (scanCount >= maxScans)
BudgetExhausted(scanCount, maxScans) == scanCount >= maxScans

\* A batch ended without a signal: lines 462-525.
AfterBatch(p) ==
  /\ cpu = p
  /\ proc[p].pc = "afterBatch"
  /\ IF BudgetExhausted(proc[p].scanCount, config.maxScansPerCycle)
     THEN IF Len(FallbackPairs) > 0
          THEN /\ proc' = [proc EXCEPT ![p].pc = "analyze", ![p].fb = 1]
               /\ cpu' = "none"
          ELSE /\ proc' = [proc EXCEPT ![p].pc = "refresh"]
               /\ cpu' = p
     ELSE /\ proc' = [proc EXCEPT ![p].pc = "scan"]
          /\ cpu' = "none"
  /\ lastEval' = NoEval
  /\ lastRisk' = NoRisk
  /\ lastStore' = NoStore
  /\ UNCHANGED <<auxVars, scenario, config, firstCycle, tradeHistory, closing, now>>

\* After the loop: the prices of the open trades' symbols are fetched
\* (lines 528-560), or nothing is when no trade is open.
RefreshStart(p) ==
  /\ cpu \in {"none", p}
  /\ proc[p].pc = "refresh"
  /\ LET open == getOpenTrades(tradeHistory) IN
       IF Len(open) > 0
       THEN /\ proc' = [proc EXCEPT ![p] = [Idle EXCEPT !.pc = "mtmFetch",
                                          !.syms = SymbolsOf(tradeHistory, open)]]
            /\ cpu' = "none"
       ELSE /\ proc' = [proc EXCEPT ![p] = [Idle EXCEPT !.pc = "mtm", !.m = 1]]
            /\ cpu' = p
  /\ lastEval' = NoEval
  /\ lastRisk' = NoRisk
  /\ lastStore' = NoStore
  /\ UNCHANGED <<auxVars, scenario, config, firstCycle, tradeHistory, closing, now>>

\* updateUPnLForOpenTrades is called: line 562.
MtmFetchDone(p) ==
  /\ cpu = "none"
  /\ proc[p].pc = "mtmFetch"
  /\ proc' = [proc EXCEPT ![p].pc = "mtm", ![p].m = 1]
  /\ cpu' = p
  /\ lastEval' = NoEval
  /\ lastRisk' = NoRisk
  /\ lastStore' = NoStore
  /\ UNCHANGED <<auxVars, scenario, config, firstCycle, tradeHistory, closing, now>>

\* updateUPnLForOpenTrades, one iteration over the live tradeHistory: it
\* suspends on updateTradePnL after each trade it marks, and logs when that
\* call throws (lines 38-44).
MtmStep(p) ==
  /\ cpu \in {"none", p}
  /\ proc[p].pc = "mtm"
  /\ proc[p].m <= Len(tradeHistory)
  /\ LET i == proc[p].m
         t == tradeHistory[i]
     IN IF t.status = "open"
        THEN \E currentLong \in PriceReads(proc[p].syms, t.longAsset),
                currentShort \in PriceReads(proc[p].syms, t.shortAsset),
                ok \in StoreDraws(scenario) :
               LET seen == [NoEval EXCEPT !.idx = i, !.wasOpen = TRUE,
                              !.priceA = IF t.symbolA = t.longAsset
                                         THEN currentLong ELSE currentShort,
                              !.priceB = IF t.symbolB = t.longAsset
                                         THEN currentLong ELSE currentShort,
                              !.wideZ = t.wideZ, !.by = p]
               IN IF currentLong = 0 \/ currentShort = 0
                  THEN \* invalid prices: continue
                       /\ ok
                       /\ cpu' = p
                       /\ lastEval' = [seen EXCEPT !.path = "refresh-skipped"]
                       /\ lastStore' = NoStore
                       /\ UNCHANGED tradeHistory
                  ELSE /\ tradeHistory' =
                            [tradeHistory EXCEPT ![i] =
                               MarkToMarket(t, RefreshPnL(t, currentLong, currentShort))]
                       /\ lastEval' =
                            [seen EXCEPT !.path = "refreshed",
                               !.pnl = RefreshPnL(t, currentLong, currentShort)]
                       /\ lastStore' = [op |-> "mark", idx |-> i, ok |-> ok,
                                        by |-> p]
                       /\ cpu' = "none"
        ELSE /\ cpu' = p
             /\ lastEval' = NoEval
             /\ lastStore' = NoStore
             /\ UNCHANGED tradeHistory
  /\ proc' = [proc EXCEPT ![p].m = @ + 1]
  /\ lastRisk' = NoRisk
  /\ UNCHANGED <<auxVars, scenario, config, firstCycle, closing, now>>

\* The end of the cycle, lines 564-609: the metrics are saved when a trade is
\* closed, and a store failure there rejects the cycle.
CycleEnd(p) ==
  /\ cpu \in {"none", p}
  /\ proc[p].pc = "mtm"
  /\ proc[p].m > Len(tradeHistory)
  /\ \E saved \in StoreDraws(scenario) :
       LET saves == SavesMetrics(tradeHistory) IN
         /\ saved \/ saves
         /\ IF saves /\ ~saved
            THEN /\ cpu' = Rejected
                 /\ firstCycle' = firstCycle
            ELSE /\ cpu' = "none"
                 /\ firstCycle' = FALSE
         /\ lastStore' = IF saves THEN MetricsStore(saved, p) ELSE NoStore
  /\ proc' = [proc EXCEPT ![p] = Idle]
  /\ lastEval' = NoEval
  /\ lastRisk' = NoRisk
  /\ UNCHANGED <<auxVars, scenario, config, tradeHistory, closing, now>>

\* A closeTrade call resumes after the store call returned or threw (lines
\* 541-548): lines 551-554.
CloseDone ==
  /\ cpu = "none"
  /\ \E c \in closing, ok \in StoreDraws(scenario) :
       /\ tradeHistory' = [tradeHistory EXCEPT ![c.idx] = CloseApply(@, c)]
       /\ closing' = closing \ {c}
       /\ lastStore' = [op |-> "close", idx |-> c.idx, ok |-> ok, by |-> c.by]
  /\ lastEval' = NoEval
  /\ lastRisk' = NoRisk
  /\ UNCHANGED <<auxVars, scenario, config, firstCycle, proc, cpu, now>>

Next ==
  \/ Tick
  \/ CloseDone
  \/ \E p \in Procs : FastStart(p)
  \/ \E p \in Procs : ExitFetchDone(p)
  \/ \E p \in Procs : ExitEval(p)
  \/ \E p \in Procs : ZReturn(p)
  \/ \E p \in Procs : FastAfterExit(p)
  \/ \E p \in Procs : FullStart(p)
  \/ \E p \in Procs : FullAfterExit(p)
  \/ \E p \in Procs : ScanTop(p)
  \/ \E p \in Procs : BatchReady(p)
  \/ \E p \in Procs : AnalyzeDone(p)
  \/ \E p \in Procs : InsertDone(p)
  \/ \E p \in Procs : AfterBatch(p)
  \/ \E p \in Procs : RefreshStart(p)
  \/ \E p \in Procs : MtmFetchDone(p)
  \/ \E p \in Procs : MtmStep(p)
  \/ \E p \in Procs : CycleEnd(p)

Spec == Init /\ [][Next]_vars

\* ------------------------------------------------- the cycles under fairness
\* The full cycles alone, in the scenario that opens positions and with the
\* budget of two batches: the steps of runAnalysisCycle after its start, each
\* the continuation of an awaited call.
CycleStep(p) ==
  \/ ExitFetchDone(p) \/ ExitEval(p) \/ ZReturn(p) \/ FullAfterExit(p)
  \/ ScanTop(p) \/ BatchReady(p) \/ AnalyzeDone(p) \/ InsertDone(p)
  \/ AfterBatch(p) \/ RefreshStart(p) \/ MtmFetchDone(p) \/ MtmStep(p)
  \/ CycleEnd(p)

CycleInit == Init /\ scenario = "entries" /\ config.maxScansPerCycle = 2

CycleNext ==
  \/ CloseDone
  \/ \E p \in Full : FullStart(p)
  \/ \E p \in Full : ExitFetchDone(p)
  \/ \E p \in Full : ExitEval(p)
  \/ \E p \in Full : ZReturn(p)
  \/ \E p \in Full : FullAfterExit(p)
  \/ \E p \in Full : ScanTop(p)
  \/ \E p \in Full : BatchReady(p)
  \/ \E p \in Full : AnalyzeDone(p)
  \/ \E p \in Full : InsertDone(p)
  \/ \E p \in Full : AfterBatch(p)
  \/ \E p \in Full : RefreshStart(p)
  \/ \E p \in Full : MtmFetchDone(p)
  \/ \E p \in Full : MtmStep(p)
  \/ \E p \in Full : CycleEnd(p)

\* Every awaited call returns, and the event loop runs a continuation that is
\* ready: a cycle that can take a step again and again does take one.
CycleSpec ==
  CycleInit /\ [][CycleNext]_vars /\ \A p \in Full : SF_vars(CycleStep(p))

\* ------------------------------------------------- the analyzer's functions
\* The pure functions of pair_analysis.ts and executor.ts, each called once
\* on arguments drawn at the start: `calc` holds the call, then its result.
\* The agent and the rate limiter stay as they start.
PriceLevels == {1, 2, 3}
PriceSeries(len) == [1..len -> PriceLevels]
SeriesPairs ==
  UNION {[pricesA : PriceSeries(len), pricesB : PriceSeries(len)] :
           len \in 2..MaxSeriesLen}

Call(fn, in) == [fn |-> fn, pc |-> "call", in |-> in, out |-> <<>>]
Called(fn) == calc.fn = fn /\ calc.pc = "call"
Returned(fn) == calc.fn = fn /\ calc.pc = "done"

AgentAtRest ==
  /\ scenario = "entries"
  /\ config = CHOOSE c \in Configs : c.maxScansPerCycle = 2
  /\ tradeHistory = <<>>
  /\ closing = {}
  /\ proc = [p \in Procs |-> Idle]
  /\ cpu = "none"
  /\ now = 0
  /\ lastEval = NoEval
  /\ lastRisk = NoRisk
  /\ lastStore = NoStore
  /\ firstCycle = TRUE

CallBeta ==
  /\ Called("calculateBeta")
  /\ calc' = [calc EXCEPT !.pc = "done",
                !.out = calculateBeta(Numbers(calc.in.pricesA),
                                      Numbers(calc.in.pricesB))]
  /\ UNCHANGED <<agentVars, limiterVars, serviceVars>>

\* The price arrays analyzePair is called on: two price levels.
AnalyzerLevels == {1, 2}
AnalyzerPairs ==
  UNION {[pricesA : [1..len -> AnalyzerLevels],
          pricesB : [1..len -> AnalyzerLevels]] : len \in 2..MaxSeriesLen}
CallAnalyzePair ==
  /\ Called("analyzePair")
  /\ calc' = [calc EXCEPT !.pc = "done",
                !.out = analyzePair(Numbers(calc.in.pricesA),
                                    Numbers(calc.in.pricesB))]
  /\ UNCHANGED <<agentVars, limiterVars, serviceVars>>

\* The spread arrays calculateHalfLife is called on: short arrays of small
\* whole numbers, and one that reverts slowly.
SpreadLevels == {0, 1, 2}
SpreadSeries ==
  UNION {[1..len -> SpreadLevels] : len \in 0..MaxSeriesLen}
    \cup {<<0, 3000, 0, -8997>>}

CallHalfLife ==
  /\ Called("calculateHalfLife")
  /\ calc' = [calc EXCEPT !.pc = "done",
                !.out = calculateHalfLife(Numbers(calc.in.spread))]
  /\ UNCHANGED <<agentVars, limiterVars, serviceVars>>

\* The t-statistics adfTest's table is read at, two per call: the
\* breakpoints, values between and beyond them, and NaN.
TStats ==
  {Num(t, 100) : t \in {-400, -343, -300, -286, -270, -257, -220, -200, -170,
                        -150, -120, -100, -70, -50, 0, 150}} \cup {NaN}
CallAdfTest ==
  /\ Called("adfTest")
  /\ calc' = [calc EXCEPT !.pc = "done",
                !.out = [i \in {1, 2} |->
                           LET pValue == adfPValue(calc.in.tStats[i]) IN
                             [cointegrationPValue |-> pValue,
                              isCointegrated |-> isCointegrated(pValue)]]]
  /\ UNCHANGED <<agentVars, limiterVars, serviceVars>>

\* The results the qualifier is called on: z-scores at and about the
\* thresholds 1.4, 1.7, 2 and 2.6, correlations about 0.85, the half-lives
\* calculateHalfLife gives, p-values at and above 0.05, and two qualities.
ResultDraws ==
  {[zScore |-> Num(z, 10), corr |-> Num(c, 100), halfLife |-> h,
    cointegrationPValue |-> Num(pv, 100), signalType |-> signalTypeOf(Num(z, 10)),
    sharpe |-> q[1], volatility |-> q[2]] :
     z \in {-30, 10, 14, 17, 20, 26}, c \in {-90, 50, 85},
     h \in {Infinity, Num(1, 2), Whole(1), Whole(8), Whole(24), Whole(48)},
     pv \in {5, 90},
     q \in {<<Whole(1), Whole(50)>>, <<Whole(0), Whole(150)>>}}
\* The optional config argument: absent, or a record of optional fields.
FilterDraws ==
  {Undefined} \cup
  {Just([maxHalfLife |-> mh, minSharpe |-> ms, maxVolatility |-> mv,
         dynamicZScore |-> dz, halfLifeEnforced |-> en,
         allowInfinityWithAdfBelow |-> al]) :
     mh \in {Undefined, Just(Whole(24))}, ms \in {Undefined, Just(Num(1, 2))},
     mv \in {Undefined, Just(Whole(100))}, dz \in {Undefined, Just(TRUE)},
     en \in {Undefined, Just(FALSE)}, al \in {Undefined, Just(Num(5, 100))}}
BaseZThreshold == Whole(2)
BaseCorrThreshold == Num(85, 100)
QualifierCalls == [result : ResultDraws, filters : FilterDraws]
CallQualifier ==
  /\ Called("meetsTradeSignalCriteria")
  /\ calc' = [calc EXCEPT !.pc = "done",
                !.out = meetsTradeSignalCriteria(calc.in.result, BaseZThreshold,
                                                 BaseCorrThreshold,
                                                 calc.in.filters)]
  /\ UNCHANGED <<agentVars, limiterVars, serviceVars>>

\* analyzeSinglePair between analyzePair's return and the decision to trade,
\* lines 110-139: `in.result` is the object analyzePair returned as it was
\* returned, `out.result` the same object at line 139.
OrchestratorCalls ==
  [result : {r \in ResultDraws : r.sharpe = Whole(1)},
   zScoreThreshold : {Num(15, 10), Whole(2)}]
CallOrchestrator ==
  /\ Called("analyzeSinglePair")
  /\ LET result == calc.in.result
         meetsCriteria ==
           meetsCriteriaOf(result, calc.in.zScoreThreshold, BaseCorrThreshold)
         after == [result EXCEPT !.signalType = AlignedSignal(result, meetsCriteria)]
     IN calc' = [calc EXCEPT !.pc = "done",
                   !.out = [meetsCriteria |-> meetsCriteria, result |-> after,
                            shouldTrade |-> meetsCriteria
                                              /\ after.signalType # "neutral"]]
  /\ UNCHANGED <<agentVars, limiterVars, serviceVars>>

\* executor.ts, lines 201-224.
calculateKellySize(winRate, avgWin, avgLoss, kellyFraction) ==
  IF Le(winRate, Whole(0)) \/ Le(Whole(1), winRate) THEN Num(1, 10)
  ELSE IF Le(avgWin, Whole(0)) THEN Num(1, 10)
  ELSE IF Le(Whole(0), avgLoss) THEN Num(1, 10)
  ELSE LET p == winRate
           q == Sub(Whole(1), p)
           b == Div(avgWin, MathAbs(avgLoss))
           fullKelly == Div(Sub(Mul(p, b), q), b)
           fractionalKelly == Mul(fullKelly, kellyFraction)
       IN MathMax(Whole(0), MathMin(Num(1, 2), fractionalKelly))

\* The arguments calculateKellySize is called on: win rates in and out of
\* (0, 1), payoffs of either sign, the default fraction and full Kelly, and
\* the numbers that are not finite.
KellyCalls ==
  [winRate : {Num(w, 10) : w \in {-1, 0, 3, 5, 9, 10, 12}} \cup {NaN},
   avgWin : {Num(a, 10) : a \in {-10, 0, 5, 20, 300}} \cup {Infinity, NaN},
   avgLoss : {Num(l, 10) : l \in {-300, -10, -1, 0, 5}} \cup {Neg(Infinity), NaN},
   kellyFraction : {Num(1, 4), Whole(1)}]
CallKelly ==
  /\ Called("calculateKellySize")
  /\ calc' = [calc EXCEPT !.pc = "done",
                !.out = calculateKellySize(calc.in.winRate, calc.in.avgWin,
                                           calc.in.avgLoss, calc.in.kellyFraction)]
  /\ UNCHANGED <<agentVars, limiterVars, serviceVars>>

AnalysisInit ==
  /\ AgentAtRest
  /\ LimiterInit
  /\ ServicesAtRest
  /\ \/ calc \in {Call("calculateBeta", in) : in \in SeriesPairs}
     \/ calc \in {Call("analyzePair", in) : in \in AnalyzerPairs}
     \/ calc \in {Call("calculateHalfLife", [spread |-> sp]) : sp \in SpreadSeries}
     \/ calc \in {Call("adfTest", [tStats |-> ts]) : ts \in TStats \X TStats}
     \/ calc \in {Call("meetsTradeSignalCriteria", in) : in \in QualifierCalls}
     \/ calc \in {Call("analyzeSinglePair", in) : in \in OrchestratorCalls}
     \/ calc \in {Call("calculateKellySize", in) : in \in KellyCalls}

AnalysisNext ==
  \/ CallBeta
  \/ CallAnalyzePair
  \/ CallHalfLife
  \/ CallAdfTest
  \/ CallQualifier
  \/ CallOrchestrator
  \/ CallKelly

AnalysisSpec == AnalysisInit /\ [][AnalysisNext]_vars

\* ------------------------------------------------------- the rate limiter
\* market_cache.ts, lines 246-297.  A task is named by the number of its
\* schedule() call.  Time passes between the steps of the event loop; a
\* timer fires when its time is up.
Max(a, b) == IF a >= b THEN a ELSE b
Min(a, b) == IF a <= b THEN a ELSE b
\* Math.floor(Math.random() * JITTER_MS): two of the values below JITTER_MS.
JitterDraws == {j \in {0, 12} : j < JITTER_MS}
\* The time that may pass at once when no timer is due sooner.
TickSteps == {50}

Limiter ==
  [active |-> active, queue |-> queue, timers |-> timers,
   running |-> running, elapsed |-> elapsed, starts |-> starts,
   settled |-> settled]
LimiterBecomes(st) ==
  /\ active' = st.active
  /\ queue' = st.queue
  /\ timers' = st.timers
  /\ running' = st.running
  /\ elapsed' = st.elapsed
  /\ starts' = st.starts
  /\ settled' = st.settled

\* start, lines 276-288, up to the await of fn().
start(st, task) ==
  [st EXCEPT !.active = @ + 1, !.elapsed = 0, !.running = @ \cup {task},
             !.starts[task] = @ + 1]

\* taskRunner, lines 269-291.
taskRunner(st, task, jitter) ==
  LET baseWait == Max(0, MIN_INTERVAL_MS - st.elapsed)
      wait == baseWait + jitter
  IN IF wait > 0
     THEN [st EXCEPT !.timers = @ \cup {[task |-> task, wait |-> wait]}]
     ELSE start(st, task)

\* processNext, lines 260-265; `jitters` are the random draws of the
\* runners it calls, in order.
RECURSIVE processNext(_, _)
processNext(st, jitters) ==
  IF st.active < MAX_CONCURRENCY /\ Len(st.queue) > 0
  THEN processNext(
         taskRunner([st EXCEPT !.queue = Tail(@)], Head(st.queue), Head(jitters)),
         Tail(jitters))
  ELSE st

\* schedule(fn), lines 267-297: the runner is queued and processNext called.
Schedule ==
  /\ calls < MaxTasks
  /\ calls' = calls + 1
  /\ \E jitters \in [1..(Len(queue) + 1) -> JitterDraws] :
       LimiterBecomes(processNext([Limiter EXCEPT !.queue = Append(@, calls + 1)],
                                  jitters))
  /\ UNCHANGED <<agentVars, serviceVars, calc>>

\* A timer set at line 290 fires: start runs.
TimerFires ==
  /\ \E t \in timers :
       /\ t.wait = 0
       /\ LimiterBecomes(start([Limiter EXCEPT !.timers = @ \ {t}], t.task))
  /\ UNCHANGED <<agentVars, serviceVars, calc, calls>>

\* What fn() gives: a value, or an error.
TaskOutcomes == {"value", "error"}

\* A variant of lines 279-286 without the finally block: the counter is
\* decremented only after resolve.
settle_NoFinally(st, task, gave) ==
  [st EXCEPT !.running = @ \ {task},
             !.active = IF gave = "value" THEN @ - 1 ELSE @,
             !.settled = @ \cup {[task |-> task, gave |-> gave,
                                  promise |-> IF gave = "value" THEN "resolved"
                                              ELSE "rejected"]}]

\* start, lines 279-285: resolve(res) or reject(e), then active--.
settle(st, task, gave) ==
  [st EXCEPT !.running = @ \ {task},
             !.active = @ - 1,
             !.settled = @ \cup {[task |-> task, gave |-> gave,
                                  promise |-> IF gave = "value" THEN "resolved"
                                              ELSE "rejected"]}]

\* fn() settles, lines 279-287: resolve or reject, then the finally block
\* with its call of processNext.
Settles ==
  /\ \E task \in running, gave \in TaskOutcomes :
       \E jitters \in [1..Len(queue) -> JitterDraws] :
         LimiterBecomes(processNext(settle(Limiter, task, gave), jitters))
  /\ UNCHANGED <<agentVars, serviceVars, calc, calls>>

\* Time passes, up to the next timer's due time.
TimePasses ==
  /\ timers # {} \/ elapsed < MIN_INTERVAL_MS
  /\ \E d \in TickSteps \cup {t.wait : t \in timers} :
       /\ d > 0
       /\ \A t \in timers : d <= t.wait
       /\ timers' = {[t EXCEPT !.wait = @ - d] : t \in timers}
       /\ elapsed' = Min(MIN_INTERVAL_MS, elapsed + d)
  /\ UNCHANGED <<agentVars, serviceVars, calc, calls, active, queue, running, starts,
                 settled>>

LimiterSpecInit ==
  /\ AgentAtRest
  /\ calc = NoCalc
  /\ LimiterInit
  /\ ServicesAtRest

LimiterNext ==
  \/ Schedule
  \/ TimerFires
  \/ Settles
  \/ TimePasses

LimiterSpec == LimiterSpecInit /\ [][LimiterNext]_vars

\* The timers of the event loop fire, time passes, and every fn() settles
\* (the requests passed to schedule carry a timeout).
LimiterFairSpec ==
  /\ LimiterSpec
  /\ WF_vars(TimerFires)
  /\ WF_vars(TimePasses)
  /\ WF_vars(Settles)

\* ------------------------------------------------------------- withRetry
\* The ways a call of fn, fetchPairData, may end: with the data ("ok"), with
\* an HTTP error of fetchOracleTwapSeries's request (its status), with a
\* request that got no response ("network"), with an empty or short series
\* ("empty"), or with another exception ("other").
FetchOutcomes == {"ok", "403", "404", "429", "500", "network", "empty", "other"}
StatusOf(outcome) ==
  IF outcome = "403" THEN 403 ELSE IF outcome = "404" THEN 404
  ELSE IF outcome = "429" THEN 429 ELSE IF outcome = "500" THEN 500 ELSE 0

\* The error fetchOracleTwapSeries throws, with the flags it attaches:
\* part_008, lines 62-66 and 93-95 (no data) and 99-121 (a failed request).
\* `attempt` tells the error objects of different attempts apart.
TwapError(outcome, attempt) ==
  LET status == StatusOf(outcome)
      is4xx == status # 0 /\ status >= 400 /\ status < 500
  IN IF outcome = "empty"
     THEN [attempt |-> attempt, kind |-> outcome, isNoData |-> TRUE,
           isClientError |-> FALSE, isRateLimited |-> FALSE]
     ELSE IF outcome = "other"
     THEN [attempt |-> attempt, kind |-> outcome, isNoData |-> FALSE,
           isClientError |-> FALSE, isRateLimited |-> FALSE]
     ELSE [attempt |-> attempt, kind |-> outcome,
           isNoData |-> status = 403,
           isClientError |-> IF status = 403 THEN FALSE
                             ELSE is4xx /\ status # 429,
           isRateLimited |-> status = 429]

\* withRetry, line 216.
backoffOf(error, delay) ==
  IF error.isRateLimited THEN Max(delay * 2, 1500) ELSE delay

\* A variant of the test of lines 210-212 that lets no-data errors through.
nonRetriable_ClientOnly(error) == error.isClientError

\* withRetry, lines 206-212: the errors rethrown at once.
nonRetriable(error) == error.isClientError \/ error.isNoData

\* A variant of the test of line 214 that gives up one attempt later.
retriesUsedUp_OneMore(retries) == retries = -1

\* withRetry, line 214.
retriesUsedUp(retries) == retries = 0

\* withRetry, lines 202-204 and 205-217: fn is called and settles.  Its
\* value is returned; its error is rethrown, or a timer is set for the
\* backoff.
RetryAttempt ==
  /\ retry.pc = "call"
  /\ \E outcome \in FetchOutcomes :
       LET attempt == Len(retry.attempts) + 1
           error == TwapError(outcome, attempt)
           made == [retry EXCEPT !.attempts = Append(@, outcome)]
       IN IF outcome = "ok"
          THEN retry' = [made EXCEPT !.pc = "returned",
                                     !.out = [attempt |-> attempt, kind |-> "ok"]]
          ELSE IF nonRetriable(error) \/ retriesUsedUp(retry.retries)
          THEN retry' = [made EXCEPT !.pc = "threw", !.out = error]
          ELSE retry' = [made EXCEPT !.pc = "waiting",
                                     !.waits = Append(@, backoffOf(error, retry.delay))]
  /\ UNCHANGED <<agentVars, calc, limiterVars, marketVars>>

\* withRetry, lines 218-220: the backoff is over and withRetry calls itself
\* with retries - 1 and delay * 2.
RetryWakes ==
  /\ retry.pc = "waiting"
  /\ retry' = [retry EXCEPT !.pc = "call", !.retries = @ - 1, !.delay = @ * 2]
  /\ UNCHANGED <<agentVars, calc, limiterVars, marketVars>>

\* The calls of withRetry: the agent's (3 retries, 1000 ms) and others with
\* retries from 0 to MaxRetries.
RetryCalls ==
  {[pc |-> "call", retries |-> r, delay |-> d, attempts |-> <<>>, waits |-> <<>>,
    out |-> <<>>] : r \in 0..MaxRetries, d \in {200, 1000}}
RetryInit ==
  /\ AgentAtRest
  /\ calc = NoCalc
  /\ LimiterInit
  /\ MarketAtRest
  /\ retry \in RetryCalls

RetryNext ==
  \/ RetryAttempt
  \/ RetryWakes

RetrySpec == RetryInit /\ [][RetryNext]_vars

\* ------------------------------------------- market cache and pair selector
\* What GET /stats/markets/prices gives: the listing, a listing without
\* markets, a body without success, or a rejection with status 403.
ProviderStates == {"up", "empty", "invalid", "403"}
\* The markets whose TWAP history the API serves: none, one, all.
TwapStates == {{}, {"SOL-PERP"}, PerpSymbols}
Listed ==
  {[symbol |-> m, marketType |-> "perp"] : m \in PerpSymbols}
    \cup {[symbol |-> "USDC", marketType |-> "spot"]}
Response(state) ==
  CASE state = "up" ->
         [rejected |-> FALSE, status |-> Undefined, success |-> TRUE,
          markets |-> Listed]
    [] state = "empty" ->
         [rejected |-> FALSE, status |-> Undefined, success |-> TRUE,
          markets |-> {}]
    [] state = "invalid" ->
         [rejected |-> FALSE, status |-> Undefined, success |-> FALSE,
          markets |-> {}]
    [] OTHER ->
         [rejected |-> TRUE, status |-> Just(403), success |-> FALSE,
          markets |-> {}]

\* The time that passes between two steps: less than the cooldown, or the TTL.
ClockSteps == {50000, CACHE_TTL_MS}

\* fetchAllMarkets, line 53: the cached data is still valid.
cacheIsFresh(c, forceRefresh) ==
  ~forceRefresh /\ Defined(c.cachedMarkets) /\ c.age < CACHE_TTL_MS

\* fetchAllMarkets, line 59: a fetch failed recently and nothing is cached.
inCooldown(c) ==
  ~Defined(c.cachedMarkets) /\ c.failed /\ c.errorAge < FAILURE_COOLDOWN_MS

\* fetchAllMarkets, lines 78-89: the perpetual markets are cached (the model
\* keeps their symbols) and the error fields are cleared.
perpMarketsOf(resp) == {m.symbol : m \in {x \in resp.markets : x.marketType = "perp"}}
onFetched(c, perpMarkets) ==
  [cachedMarkets |-> Just(perpMarkets), age |-> 0, failed |-> FALSE,
   errorAge |-> FAILURE_COOLDOWN_MS, lastFetchErrorStatus |-> Undefined]

\* fetchAllMarkets, lines 96-99: the catch block records the failure.
onFetchError(c, status) ==
  [c EXCEPT !.failed = TRUE, !.errorAge = 0, !.lastFetchErrorStatus = status]

\* A variant of lines 119-126 that rethrows when nothing is cached.
staleOrEmpty_Rethrows(c) ==
  IF Defined(c.cachedMarkets)
  THEN [threw |-> FALSE, out |-> c.cachedMarkets]
  ELSE [threw |-> TRUE, out |-> Undefined]

\* fetchAllMarkets, lines 119-126: the stale cache if there is one, an empty
\* list otherwise.
staleOrEmpty(c) ==
  IF Defined(c.cachedMarkets)
  THEN [threw |-> FALSE, out |-> c.cachedMarkets]
  ELSE [threw |-> FALSE, out |-> Just({})]

\* selectRandomMarkets, lines 198-199: a shuffle of the list, cut to count.
RECURSIVE Shuffles(_)
Shuffles(S) ==
  IF S = {} THEN {<<>>}
  ELSE UNION {{<<x>> \o t : t \in Shuffles(S \ {x})} : x \in S}
selectRandomMarkets(allMarkets, count) ==
  {SubSeq(sh, 1, Min(count, Len(sh))) : sh \in Shuffles(allMarkets)}

\* generateRandomPairCombinations, lines 236-259: the selected markets are
\* paired two by two; a pair is pushed only when both markets are there.
pairsOf(selectedMarkets, pairCount) ==
  [i \in 1..Min(pairCount, Len(selectedMarkets) \div 2) |->
     <<selectedMarkets[2 * i - 1], selectedMarkets[2 * i]>>]
Batches(allMarkets, pairCount) ==
  {pairsOf(sel, pairCount) : sel \in selectRandomMarkets(allMarkets, pairCount * 2)}

\* fetchAvailablePerpMarkets, line 174: if (!cachedMarkets) is false.
selectorHasList(sel) == Defined(sel.cachedMarkets)

\* fetchAllMarkets has returned apiMarkets to its caller.  The selector goes
\* on (lines 164-187): with its cached list, or to the TWAP checks.
FetchGave(sc, result) ==
  [sc EXCEPT !.threw = result.threw, !.out = result.out]
AfterFetch(sc) ==
  IF sc.caller = "selector" /\ ~sc.threw
  THEN IF selectorHasList(selector)
       THEN {[sc EXCEPT !.pc = "done", !.batch = b] :
               b \in Batches(The(selector.cachedMarkets), sc.pairCount)}
       ELSE {[sc EXCEPT !.pc = "twap"]}
  ELSE {[sc EXCEPT !.pc = "done"]}

\* fetchAllMarkets is called, lines 49-64: the cache, the cooldown, or the
\* request.
BeginFetch(caller, pairCount, forceRefresh) ==
  /\ scan.pc \in {"idle", "done"}
  /\ LET sc == [NoScan EXCEPT !.caller = caller, !.pairCount = pairCount,
                  !.fresh = (Defined(marketCache.cachedMarkets)
                               /\ marketCache.age < CACHE_TTL_MS),
                  !.had = marketCache.cachedMarkets]
     IN IF cacheIsFresh(marketCache, forceRefresh)
        THEN scan' \in AfterFetch([sc EXCEPT !.out = marketCache.cachedMarkets])
        ELSE IF inCooldown(marketCache)
        THEN scan' \in AfterFetch([sc EXCEPT !.out = Just({})])
        ELSE scan' = [sc EXCEPT !.pc = "request", !.requested = TRUE]
  /\ UNCHANGED <<agentVars, calc, limiterVars, retry, marketCache, selector,
                 provider>>

\* A caller other than the selector (getAllPerpSymbols, getMarketBySymbol,
\* ...) calls fetchAllMarkets(); no call passes forceRefresh.
CallFetchAllMarkets == BeginFetch("direct", 0, FALSE)

\* generateRandomPairCombinations(pairCount) is called: index.ts, lines 234-235.
CallSelector == \E pairCount \in {1, 2} : BeginFetch("selector", pairCount, FALSE)

\* The request settles, lines 66-126.
MarketsRespond ==
  /\ scan.pc = "request"
  /\ LET resp == Response(provider.markets)
         thrown == resp.rejected \/ ~resp.success
     IN IF thrown
        THEN /\ marketCache' = onFetchError(marketCache, resp.status)
             /\ scan' \in AfterFetch(FetchGave([scan EXCEPT !.failed = TRUE],
                                                staleOrEmpty(marketCache)))
        ELSE /\ marketCache' = onFetched(marketCache, perpMarketsOf(resp))
             /\ scan' \in AfterFetch([scan EXCEPT !.out = Just(perpMarketsOf(resp))])
  /\ UNCHANGED <<agentVars, calc, limiterVars, retry, selector, provider>>

\* fetchAvailablePerpMarkets, lines 175-187: the TWAP checks are in, the
\* valid markets are cached and returned.
TwapChecked ==
  /\ scan.pc = "twap"
  /\ LET valid == {m \in The(scan.out) : m \in provider.twap}
     IN /\ selector' = [cachedMarkets |-> Just(valid)]
        /\ \E b \in Batches(valid, scan.pairCount) :
             scan' = [scan EXCEPT !.pc = "done", !.batch = b]
  /\ UNCHANGED <<agentVars, calc, limiterVars, retry, marketCache, provider>>

\* The Data API goes down, comes back, or serves other TWAP histories.
ProviderChanges ==
  /\ \E m \in ProviderStates, t \in TwapStates :
       /\ [markets |-> m, twap |-> t] # provider
       /\ provider' = [markets |-> m, twap |-> t]
  /\ UNCHANGED <<agentVars, calc, limiterVars, retry, marketCache, selector, scan>>

\* Time passes between two calls (a request is cut off after 10 s, line 71).
ClockAdvances ==
  /\ scan.pc \in {"idle", "done"}
  /\ \E step \in ClockSteps :
       marketCache' =
         [marketCache EXCEPT !.age = Min(@ + step, CACHE_TTL_MS),
                             !.errorAge = Min(@ + step, FAILURE_COOLDOWN_MS)]
  /\ marketCache' # marketCache
  /\ UNCHANGED <<agentVars, calc, limiterVars, retry, selector, provider, scan>>

MarketInit ==
  /\ AgentAtRest
  /\ calc = NoCalc
  /\ LimiterInit
  /\ retry = NoRetry
  /\ marketCache = ColdCache
  /\ selector = [cachedMarkets |-> Undefined]
  /\ provider \in [markets : ProviderStates, twap : TwapStates]
  /\ scan = NoScan

MarketNext ==
  \/ CallFetchAllMarkets
  \/ CallSelector
  \/ MarketsRespond
  \/ TwapChecked
  \/ ProviderChanges
  \/ ClockAdvances

MarketSpec == MarketInit /\ [][MarketNext]_vars

\* The scans recur (the while loop of index.ts, lines 229-260, and the
\* setInterval of line 408), time passes, and every request settles (the
\* request has a timeout, and hasTwapHistory catches every error).
MarketFairSpec ==
  /\ MarketSpec
  /\ SF_vars(CallSelector)
  /\ SF_vars(ClockAdvances)
  /\ WF_vars(MarketsRespond)
  /\ WF_vars(TwapChecked)

\* ------------------------------------------------------------ properties
\* The last step completed an exit check of a position whose prices were
\* available (lines 600-658), and the position it checked.
Evaluated == lastEval.path = "checked"
EvalTrade == tradeHistory[lastEval.idx]
\* The closeTrade calls of the last exit check that passed the guard.
IssuedCalls == {c \in closing : c.idx = lastEval.idx /\ c.by = lastEval.by}
CloseFields(t) == <<t.status, t.closePnL, t.closeReason, t.closeTimestamp>>
LongAShortB(t) ==
  /\ t.longAsset = "A" /\ t.shortAsset = "B"
  /\ t.longPrice = 100 /\ t.shortPrice = 50

\* C1: a position that has once had status closed never has status open
\* again, whatever step (open, mark-to-market, exit check, close) comes next.
C1_ClosedStaysClosed ==
  [][\A i \in DOMAIN tradeHistory :
       tradeHistory[i].status = "closed" =>
         /\ i \in DOMAIN tradeHistory'
         /\ tradeHistory'[i].status = "closed"]_vars

\* An exit check has just marked a position that is closed.
C1_Witness ==
  /\ Evaluated /\ ~lastEval.wasOpen
  /\ EvalTrade.status = "closed"
  /\ EvalTrade.upnlPct # EvalTrade.closePnL

\* C2: a closeTrade call on a position that is already closed is a no-op: it
\* registers no close and leaves status, closePnL, closeReason and
\* closeTimestamp as they were.
C2_CloseIdempotent ==
  [][(lastEval'.issued # "none" /\ ~lastEval'.wasOpen) =>
       /\ closing' = closing
       /\ CloseFields(tradeHistory'[lastEval'.idx])
            = CloseFields(tradeHistory[lastEval'.idx])]_vars

\* An exit check has just called closeTrade, with another reason, on a
\* position that is closed.
C2_Witness ==
  /\ lastEval.issued # "none" /\ ~lastEval.wasOpen
  /\ EvalTrade.status = "closed"
  /\ EvalTrade.closeReason.rule # lastEval.issued

RuleOrder == <<"stop-loss", "take-profit", "max-holding", "mean-reversion">>
RuleHolds(rule, pnl, hold, z) ==
  CASE rule = "stop-loss" -> pnl <= StopLossPct
    [] rule = "take-profit" -> pnl >= TakeProfitPct
    [] rule = "max-holding" -> hold >= MaxHoldingPeriod
    [] rule = "mean-reversion" -> z # ZNull /\ Abs(z) <= MeanReversionThreshold
EarliestHolding(pnl, hold, z) ==
  LET ks == {k \in DOMAIN RuleOrder : RuleHolds(RuleOrder[k], pnl, hold, z)}
  IN IF ks = {} THEN "none"
     ELSE RuleOrder[CHOOSE k \in ks : \A j \in ks : k <= j]

\* C3: an exit check closes by the earliest rule, in the order stop-loss,
\* take-profit, max holding, mean reversion, that holds; that rule is the
\* recorded reason, and when it is one of the first three the z-score of the
\* mean-reversion rule is not evaluated.
C3_FirstRuleInOrder ==
  Evaluated =>
    /\ lastEval.issued = EarliestHolding(lastEval.pnl, lastEval.hold, lastEval.z)
    /\ lastEval.issued \in {"stop-loss", "take-profit", "max-holding"}
         => ~lastEval.zEvaluated
    /\ (lastEval.issued # "none" /\ lastEval.wasOpen)
         => \E c \in IssuedCalls : c.reason.rule = lastEval.issued

\* Stop-loss, max holding and mean reversion hold at once; stop-loss closes.
C3_Witness ==
  /\ Evaluated /\ lastEval.wasOpen
  /\ lastEval.issued = "stop-loss"
  /\ lastEval.hold >= MaxHoldingPeriod
  /\ lastEval.z # ZNull /\ Abs(lastEval.z) <= MeanReversionThreshold

Bounded(rule, closePnL) ==
  /\ rule = "stop-loss" => closePnL <= StopLossPct
  /\ rule = "take-profit" => closePnL >= TakeProfitPct

\* C4: a close with a stop-loss reason has closePnL <= stopLossPct and one
\* with a take-profit reason has closePnL >= takeProfitPct; an open position
\* long A / short B entered at (100, 50) and checked at (97, 50) is closed
\* with reason stop-loss and closePnL <= -3.
C4_StopAndTakeBounds ==
  /\ \A i \in DOMAIN tradeHistory :
       tradeHistory[i].status = "closed" =>
         Bounded(tradeHistory[i].closeReason.rule, tradeHistory[i].closePnL)
  /\ \A c \in closing : Bounded(c.reason.rule, c.closePnL)
  /\ (/\ Evaluated /\ lastEval.wasOpen /\ LongAShortB(EvalTrade)
      /\ lastEval.priceA = 97 /\ lastEval.priceB = 50)
       => /\ lastEval.issued = "stop-loss"
          /\ \E c \in IssuedCalls :
               c.reason.rule = "stop-loss" /\ c.closePnL <= -3

\* A position opened in this run long A / short B is closed, by stop-loss,
\* at -3.
C4_Witness ==
  \E i \in DOMAIN tradeHistory :
    LET t == tradeHistory[i] IN
      /\ t.status = "closed" /\ ~t.reloaded /\ LongAShortB(t)
      /\ t.closeReason = [rule |-> "stop-loss", value |-> -3]
      /\ t.closePnL = -3

\* C5: the closePnL of a close is the position's last mark-to-market at the
\* moment closeTrade is called, which for stop-loss, take-profit and max
\* holding is the PnL the check just computed; the reason carries the value
\* that triggered its rule; and the record written when the store call
\* returns holds the values of the call, not later ones.
C5_ClosePnLIsTriggerValue ==
  /\ []((lastEval.issued # "none" /\ lastEval.wasOpen) =>
         \E c \in IssuedCalls :
           /\ c.reason.rule = lastEval.issued
           /\ c.closePnL = EvalTrade.upnlPct
           /\ lastEval.issued \in {"stop-loss", "take-profit"}
                => c.closePnL = lastEval.pnl /\ c.reason.value = lastEval.pnl
           /\ lastEval.issued = "max-holding"
                => c.closePnL = lastEval.pnl /\ c.reason.value = lastEval.hold
           /\ lastEval.issued = "mean-reversion"
                => c.reason.value = lastEval.z)
  /\ [][\A i \in DOMAIN tradeHistory :
          CloseFields(tradeHistory'[i]) # CloseFields(tradeHistory[i]) =>
            \E c \in closing \ closing' :
              /\ c.idx = i
              /\ tradeHistory'[i].closePnL = c.closePnL
              /\ tradeHistory'[i].closeReason = c.reason]_vars

\* A position closed by stop-loss keeps the triggering PnL although it was
\* marked to another value after the close was triggered.
C5_Witness ==
  \E i \in DOMAIN tradeHistory :
    LET t == tradeHistory[i] IN
      /\ t.status = "closed"
      /\ t.closeReason.rule = "stop-loss"
      /\ t.closeReason.value = t.closePnL
      /\ t.upnlPct # t.closePnL
      /\ \A c \in closing : c.idx # i

C7_OpenWithinCap == OpenCount(tradeHistory) <= config.maxConcurrentTrades

\* The open positions that have symbol s as one of their two legs.
OpenOn(s) ==
  {i \in DOMAIN tradeHistory :
     /\ tradeHistory[i].status = "open"
     /\ s \in {tradeHistory[i].longAsset, tradeHistory[i].shortAsset}}
\* The open positions that share a leg symbol with the pair.
SharingLeg(pair) == OpenOn(pair[1]) \cup OpenOn(pair[2])

\* C8: a candidate with a tradeable signal is rejected, and no position is
\* opened for it, when the open count is >= maxConcurrentTrades, and also
\* when the count of open positions sharing one of its symbols is
\* >= maxCorrelatedTrades.
C8_RiskAdmissionRejects ==
  (/\ lastRisk.by # "none" /\ lastRisk.signalType # "none"
   /\ \/ Cardinality({i \in DOMAIN tradeHistory :
                         tradeHistory[i].status = "open"})
           >= config.maxConcurrentTrades
      \/ Cardinality(SharingLeg(lastRisk.pair)) >= config.maxCorrelatedTrades)
    => /\ ~lastRisk.admitted
       /\ proc[lastRisk.by].pc # "insert"

\* A tradeable candidate is rejected by the correlated limit alone.
C8_Witness ==
  /\ lastRisk.by # "none" /\ lastRisk.signalType # "none"
  /\ ~lastRisk.admitted
  /\ OpenCount(tradeHistory) < config.maxConcurrentTrades
  /\ Cardinality(SharingLeg(lastRisk.pair)) >= config.maxCorrelatedTrades

\* C9: for every symbol, the number of open positions with that symbol as a
\* leg never exceeds maxCorrelatedTrades.
C9_SymbolWithinLimit ==
  \A s \in Symbols : Cardinality(OpenOn(s)) <= config.maxCorrelatedTrades

\* The current price the last exit check read for a symbol of its position.
EvalPrice(s) ==
  IF s = EvalTrade.symbolA THEN lastEval.priceA ELSE lastEval.priceB

\* C10: the PnL an exit check computes is the PnL the refresh path computes
\* for the same position and prices: the long leg priced by longAsset, the
\* short leg by shortAsset.
C10_ExitCheckPricesLegsByAsset ==
  Evaluated =>
    lastEval.pnl = RefreshPnL(EvalTrade, EvalPrice(EvalTrade.longAsset),
                              EvalPrice(EvalTrade.shortAsset))

\* C20: a position that has been open for at least maxHoldingPeriod is closed
\* by the next exit check with a max-holding reason, even when the current
\* price of one of its symbols is unavailable in that check.
C20_MaxHoldingWithoutPrices ==
  (/\ lastEval.path \in {"skipped", "checked"} /\ lastEval.wasOpen
   /\ now - EvalTrade.timestamp >= MaxHoldingPeriod
   /\ (lastEval.priceA = 0 \/ lastEval.priceB = 0))
    => lastEval.issued = "max-holding"

\* C11: when a current leg price of a position is non-positive or
\* unavailable, the exit check and the refresh skip the position: the ledger
\* (its stored PnL included) is left as it was, no close is registered, and
\* the handler goes on with its loop.
C11_MarkSkipsWithoutPrice ==
  [][(lastEval'.path # "none"
        /\ (lastEval'.priceA <= 0 \/ lastEval'.priceB <= 0)) =>
       /\ lastEval'.path \in {"skipped", "refresh-skipped"}
       /\ tradeHistory' = tradeHistory
       /\ closing' = closing
       /\ proc'[lastEval'.by].pc = proc[lastEval'.by].pc]_vars

\* The refresh has just skipped an open position whose stored PnL is not 0.
C11_Witness ==
  /\ lastEval.path = "refresh-skipped"
  /\ EvalTrade.status = "open"
  /\ EvalTrade.upnlPct # 0

\* C18: every position executeTrade adds to the ledger has the legs of its
\* candidate's signal: long gives longAsset = symbol A and shortAsset =
\* symbol B, short gives longAsset = symbol B and shortAsset = symbol A; its
\* entry prices are the entry prices of those assets, its status is open and
\* its PnL is 0.
C18_OpenedLegsFollowSignal ==
  [][Len(tradeHistory') > Len(tradeHistory) =>
       \E p \in Inserting :
         LET c == proc[p].cand
             t == tradeHistory'[Len(tradeHistory')]
         IN /\ proc'[p].pc # "insert"
            /\ Len(tradeHistory') = Len(tradeHistory) + 1
            /\ t.symbolA = c.pair[1] /\ t.symbolB = c.pair[2]
            /\ c.signalType \in {"long", "short"}
            /\ c.signalType = "long"
                 => t.longAsset = c.pair[1] /\ t.shortAsset = c.pair[2]
            /\ c.signalType = "short"
                 => t.longAsset = c.pair[2] /\ t.shortAsset = c.pair[1]
            /\ t.longPrice = EntryPrice(t.longAsset)
            /\ t.shortPrice = EntryPrice(t.shortAsset)
            /\ t.status = "open" /\ t.upnlPct = 0]_vars

\* A short signal on A/B has opened a position long B at 50, short A at 100.
C18_Witness ==
  /\ scenario = "entries"
  /\ \E i \in DOMAIN tradeHistory :
       LET t == tradeHistory[i] IN
         /\ ~t.reloaded /\ t.action = "short"
         /\ t.symbolA = "A" /\ t.symbolB = "B"
         /\ t.longAsset = "B" /\ t.longPrice = 50
         /\ t.shortAsset = "A" /\ t.shortPrice = 100

\* The step belongs to a run of the exit monitor: the handler moved, or a
\* closeTrade call it made resumed after the store call.
FastStep ==
  \/ \E p \in Fast : proc'[p] # proc[p]
  \/ \E c \in closing \ closing' : c.by \in Fast
\* The positions a run of the exit monitor works on: its snapshot of the open
\* trades, and those whose close it has under way.
FastScope ==
  UNION {SeqRange(proc[p].snap) \cup SeqRange(proc'[p].snap) : p \in Fast}
    \cup {c.idx : c \in {d \in closing : d.by \in Fast}}
\* A trade record without its PnL and close fields (wideZ is a history field
\* of the model, not a field of the record).
OutsidePnLAndClose(t) ==
  [t EXCEPT !.upnlPct = 0, !.status = "open", !.closeTimestamp = 0,
            !.closeReason = NoReason, !.closePnL = 0, !.wideZ = FALSE]

\* C14: a run of the exit monitor adds no entry to the ledger and changes
\* only the PnL and close fields of positions that were open when it took its
\* snapshot or called closeTrade; the timer starts it only when a position is
\* open.
C14_FastLoopOpensNothing ==
  [][FastStep =>
       /\ Len(tradeHistory') = Len(tradeHistory)
       /\ \A p \in Fast : proc'[p].pc \notin {"analyze", "insert"}
       /\ \A i \in DOMAIN tradeHistory :
            /\ OutsidePnLAndClose(tradeHistory'[i]) = OutsidePnLAndClose(tradeHistory[i])
            /\ tradeHistory'[i] # tradeHistory[i] => i \in FastScope
       /\ \A p \in Fast :
            (proc[p].pc = "idle" /\ proc'[p].pc # "idle")
              => OpenCount(tradeHistory) > 0]_vars

\* The exit monitor has just called closeTrade on an open position.
C14_Witness ==
  /\ lastEval.by \in Fast
  /\ lastEval.issued # "none" /\ lastEval.wasOpen
  /\ \E c \in IssuedCalls : c.by \in Fast

\* C19: the direction of every position added to the ledger follows the sign
\* of its candidate's z-score, also when the configured threshold is not the
\* base band of 2: z > 0 opens short A / long B, z < 0 opens long A / short
\* B, and no position is opened from z = 0.
C19_DirectionFromSignOfZ ==
  [][Len(tradeHistory') > Len(tradeHistory) =>
       \E p \in Inserting :
         LET c == proc[p].cand
             t == tradeHistory'[Len(tradeHistory')]
         IN /\ proc'[p].pc # "insert"
            /\ t.zScore = c.zScore /\ c.zScore # 0
            /\ c.zScore > 0
                 => /\ t.action = "short"
                    /\ t.shortAsset = c.pair[1] /\ t.longAsset = c.pair[2]
            /\ c.zScore < 0
                 => /\ t.action = "long"
                    /\ t.longAsset = c.pair[1] /\ t.shortAsset = c.pair[2]]_vars

\* With the threshold at 1.5, a candidate at z = -1.8, neutral by the base
\* band, has opened a position long A.
C19_Witness ==
  /\ config.zScoreThreshold = 15
  /\ \E i \in DOMAIN tradeHistory :
       LET t == tradeHistory[i] IN
         /\ ~t.reloaded /\ t.zScore = -18
         /\ t.action = "long" /\ t.longAsset = t.symbolA

\* C17: a candidate whose data is unavailable (too few price points, a
\* client rejection, a market lookup miss) opens no position and does not
\* end the handler: the scan goes on with the next candidate of the batch or
\* of the fallback list, and past the last one to what follows the list.
C17_NoDataSkipsCandidate ==
  [][lastRisk'.outcome \in {"nodata", "nomarket"} =>
       LET q == proc[lastRisk'.by]
           r == proc'[lastRisk'.by]
       IN /\ tradeHistory' = tradeHistory
          /\ ~lastRisk'.admitted
          /\ r.pc \notin {"insert", "idle"}
          /\ r.scanCount = q.scanCount
          /\ IF q.fb > 0
             THEN IF q.fb < Len(FallbackPairs)
                  THEN r.pc = "analyze" /\ r.fb = q.fb + 1
                  ELSE r.pc = "refresh"
             ELSE IF q.left > 1
                  THEN r.pc = "analyze" /\ r.left = q.left - 1 /\ r.fb = 0
                  ELSE r.pc = "afterBatch"]_vars

\* The first candidate of a batch of two had no data and the handler is
\* analysing the second.
C17_Witness ==
  /\ lastRisk.outcome = "nodata"
  /\ proc[lastRisk.by].pc = "analyze"
  /\ proc[lastRisk.by].fb = 0 /\ proc[lastRisk.by].left = 1

\* C12: the scan loop of a full cycle ends with signalFound exactly when the
\* cycle added a position to the ledger, evaluates no further candidate once
\* it has added one, and so adds at most one position.
C12_ScanStopsAtFirstOpen ==
  \A p \in Full :
    /\ proc[p].pc = "refresh" => (proc[p].signalFound <=> proc[p].opened >= 1)
    /\ proc[p].opened >= 1 => proc[p].pc = "refresh"
    /\ proc[p].opened <= 1

\* C15: when the store call of an open, a mark-to-market or a close fails,
\* the in-memory mutation is applied all the same: the position is in the
\* ledger, its PnL is the new value, or its status is closed.
C15_StoreFailureKeepsMutation ==
  (lastStore.op \in {"open", "mark", "close"} /\ ~lastStore.ok) =>
    /\ lastStore.idx \in DOMAIN tradeHistory
    /\ lastStore.op = "open" => tradeHistory[lastStore.idx].status = "open"
    /\ lastStore.op = "mark"
         => /\ lastEval.path = "refreshed"
            /\ tradeHistory[lastStore.idx].upnlPct = lastEval.pnl
    /\ lastStore.op = "close" => tradeHistory[lastStore.idx].status = "closed"

\* C16: no failure of steady-state operation (a price or series fetch, an
\* analysis, a store write for a trade or for the performance snapshot), in
\* the first cycle or a later one, terminates the process.
C16_NoFailureStopsProcess == cpu # "exited"

ExitStages == {"exitFetch", "exitLoop", "awaitZ"}
ScanStages == {"scan", "batch", "analyze", "insert", "afterBatch"}
RefreshStages == {"refresh", "mtmFetch", "mtm"}

SlopeOnB(pricesA, pricesB) ==
  LET returnsA == calculateReturns(pricesA)
      returnsB == calculateReturns(pricesB)
      dA(i) == Sub(returnsA[i], mean(returnsA))
      dB(i) == Sub(returnsB[i], mean(returnsB))
      cov == Sum([i \in DOMAIN returnsA |-> Mul(dA(i), dB(i))])
      varB == Sum([i \in DOMAIN returnsB |-> Mul(dB(i), dB(i))])
  IN IF varB = Whole(0) THEN Whole(0) ELSE Div(cov, varB)

\* C26: the hedge ratio calculateBeta returns is the covariance of the two
\* return series divided by the variance of B's returns, and 0 when B's
\* return variance is zero.
C26_BetaIsSlopeOnB ==
  Returned("calculateBeta")
    => calc.out = SlopeOnB(Numbers(calc.in.pricesA), Numbers(calc.in.pricesB))

\* The spread array analyzePair computes for a pair of price arrays, and an
\* array whose values are all the same.
SpreadOf(in) ==
  calculateSpread(Numbers(in.pricesA), Numbers(in.pricesB),
                  calculateBeta(Numbers(in.pricesA), Numbers(in.pricesB)))
Constant(s) == \A i \in DOMAIN s : s[i] = s[1]

\* C25: when the spread series is constant, the spread's standard deviation
\* is 0 and the z-score analyzePair returns is a finite number, not NaN and
\* not an infinity.
C25_FlatSpreadGivesSentinel ==
  (Returned("analyzePair") /\ Constant(SpreadOf(calc.in)))
    => calc.out.std = Whole(0) /\ isFinite(calc.out.zScore)

\* The half-life calculateHalfLife would compute at line 159 for an array of
\* three values or more, and the slope it comes from.
RhoOf(spread) ==
  LET lagged == SubSeq(spread, 1, Len(spread) - 1)
      delta == [i \in 1..(Len(spread) - 1) |-> Sub(spread[i + 1], spread[i])]
      dl(i) == Sub(lagged[i], mean(lagged))
      dd(i) == Sub(delta[i], mean(delta))
  IN Div(Sum([i \in DOMAIN lagged |-> Mul(dl(i), dd(i))]),
         Sum([i \in DOMAIN lagged |-> Mul(dl(i), dl(i))]))

\* C27: calculateHalfLife never throws; it gives Infinity whenever the
\* fitted slope rho is >= 0, whenever the regression is degenerate (fewer
\* than three values, no variation in the lagged spread) and whenever the
\* computed value is not finite, negative or above 1000; what it gives
\* otherwise is a finite number from 0 to 1000.
C27_HalfLifeSentinel ==
  Returned("calculateHalfLife") =>
    LET spread == Numbers(calc.in.spread)
        rho == RhoOf(spread)
        computed == HalfLifeOf(rho)
    IN /\ ~calc.out.threw
       /\ Len(spread) < 3 => calc.out.value = Infinity
       /\ (Len(spread) >= 3 /\ ~isFinite(rho)) => calc.out.value = Infinity
       /\ (Len(spread) >= 3 /\ Le(Whole(0), rho)) => calc.out.value = Infinity
       /\ (Len(spread) >= 3 /\ (\/ ~isFinite(computed)
                                 \/ Lt(computed, Whole(0))
                                 \/ Lt(Whole(1000), computed)))
            => calc.out.value = Infinity
       /\ \/ calc.out.value = Infinity
          \/ /\ isFinite(calc.out.value)
             /\ Le(Whole(0), calc.out.value)
             /\ Le(calc.out.value, Whole(1000))

\* calculateHalfLife was called on a slowly reverting spread, whose computed
\* half-life is above 1000 periods, and gave Infinity.
C27_Witness ==
  /\ Returned("calculateHalfLife")
  /\ Len(calc.in.spread) >= 3
  /\ Lt(RhoOf(Numbers(calc.in.spread)), Whole(0))
  /\ Lt(Whole(1000), HalfLifeOf(RhoOf(Numbers(calc.in.spread))))
  /\ calc.out = Gave(Infinity)

C22_HalfLifeGateFirst ==
  /\ Returned("analyzeSinglePair") =>
       (~isFinite(calc.in.result.halfLife) => ~calc.out.meetsCriteria)
  /\ Returned("meetsTradeSignalCriteria") =>
       LET result == calc.in.result
           filters == calc.in.filters
           ceiling == IF Defined(filters)
                      THEN The(filters).allowInfinityWithAdfBelow ELSE Undefined
           maxHL == IF Defined(filters) THEN The(filters).maxHalfLife ELSE Undefined
       IN /\ (/\ ~isFinite(result.halfLife)
               /\ ~(/\ Defined(ceiling)
                     /\ Le(result.cointegrationPValue, The(ceiling))))
               => ~calc.out
          /\ (/\ isFinite(result.halfLife)
               /\ Defined(maxHL)
               /\ \/ Lt(The(maxHL), result.halfLife)
                  \/ Lt(result.halfLife, Whole(1)))
               => ~calc.out

\* Whether a call of the qualifier has dynamic adjustment on, and the
\* multiplier, in hundredths, of a half-life's row of the table.
DynamicOn(filters) ==
  Defined(filters) /\ The(filters).dynamicZScore = Just(TRUE)
RowMultiplier(halfLife) ==
  IF Lt(halfLife, Whole(8)) THEN 70
  ELSE IF Lt(halfLife, Whole(24)) THEN 85
  ELSE IF Lt(halfLife, Whole(48)) THEN 100
  ELSE 130

\* C23 as stated: an accepted result has |zScore| >= effectiveThreshold and
\* |correlation| >= correlationThreshold, the effective threshold being the
\* base one scaled by its half-life's row (1.30 for every half-life that is
\* not below 48) when dynamic adjustment is on, the base one when it is off.
C23_ScaledForEveryHalfLife ==
  (Returned("meetsTradeSignalCriteria") /\ calc.out) =>
    LET result == calc.in.result
        scale == IF DynamicOn(calc.in.filters)
                 THEN RowMultiplier(result.halfLife) ELSE 100
    IN /\ Le(Mul(BaseZThreshold, Num(scale, 100)), MathAbs(result.zScore))
       /\ Le(BaseCorrThreshold, MathAbs(result.corr))

\* C23, amended: the same, the threshold being scaled only when dynamic
\* adjustment is on and the half-life is finite; a result with an infinite
\* half-life is held to the base threshold.  A candidate analyzeSinglePair
\* accepts meets the base threshold of its configuration.
C23_ScaledForFiniteHalfLife ==
  /\ (Returned("meetsTradeSignalCriteria") /\ calc.out) =>
       LET result == calc.in.result
           scale == IF DynamicOn(calc.in.filters) /\ isFinite(result.halfLife)
                    THEN RowMultiplier(result.halfLife) ELSE 100
       IN /\ Le(Mul(BaseZThreshold, Num(scale, 100)), MathAbs(result.zScore))
          /\ Le(BaseCorrThreshold, MathAbs(result.corr))
  /\ (Returned("analyzeSinglePair") /\ calc.out.meetsCriteria) =>
       /\ Le(calc.in.zScoreThreshold, MathAbs(calc.in.result.zScore))
       /\ Le(BaseCorrThreshold, MathAbs(calc.in.result.corr))

\* With dynamic adjustment on, a result with an infinite half-life, let
\* through the half-life gate by its p-value, was accepted with a z-score
\* of 2.0: at the base threshold and below 1.30 times it.
C23_Witness ==
  /\ Returned("meetsTradeSignalCriteria")
  /\ DynamicOn(calc.in.filters)
  /\ calc.in.result.halfLife = Infinity
  /\ calc.in.result.zScore = Whole(2)
  /\ calc.out

\* C24: the object analyzePair returned is the same, field by field, when
\* analyzeSinglePair has judged it and decided on the trade as when it was
\* returned.
C24_ResultNeverMutated ==
  Returned("analyzeSinglePair") => calc.out.result = calc.in.result

\* C29: the size calculateKellySize returns is a number from 0 to 0.5, for
\* every win rate, average win, average loss and fraction.
C29_KellyWithinBounds ==
  Returned("calculateKellySize")
    => Le(Whole(0), calc.out) /\ Le(calc.out, Num(1, 2))

\* C30: the rate limiter never has more than MAX_CONCURRENCY tasks running
\* at the same time.
C30_AtMostMaxConcurrency ==
  Cardinality(running) <= MAX_CONCURRENCY

\* C31: a task of the rate limiter starts only when MIN_INTERVAL_MS or more
\* have passed since the start before it.
C31_StartsSpacedApart ==
  [][running' \ running # {} => elapsed >= MIN_INTERVAL_MS]_vars

\* The arguments a call of withRetry was made with, from its state: every
\* wake-up took one retry and doubled the delay.
RetryWakeUps == Len(retry.waits) - (IF retry.pc = "waiting" THEN 1 ELSE 0)
RetriesGiven == retry.retries + RetryWakeUps
DelayGiven == retry.delay \div 2^RetryWakeUps

C38_RetryBudget ==
  /\ Len(retry.attempts) <= RetriesGiven + 1
  /\ \A i \in DOMAIN retry.attempts :
       retry.attempts[i] = "ok" =>
         /\ i = Len(retry.attempts)
         /\ retry.pc = "returned"
         /\ retry.out = [attempt |-> i, kind |-> "ok"]
  /\ retry.pc = "returned" => retry.attempts[Len(retry.attempts)] = "ok"
  /\ retry.pc = "threw" =>
       retry.out = TwapError(retry.attempts[Len(retry.attempts)],
                             Len(retry.attempts))
  /\ (/\ Len(retry.attempts) = RetriesGiven + 1
      /\ retry.attempts[Len(retry.attempts)] # "ok") => retry.pc = "threw"
  /\ \A i \in DOMAIN retry.waits :
       LET base == DelayGiven * 2^(i - 1) IN
         retry.waits[i] = IF retry.attempts[i] = "429"
                          THEN Max(2 * base, 1500) ELSE base

\* A call with 3 retries and a delay of 1000 ms made four attempts that all
\* failed with a server error, waited 1000, 2000 and 4000 ms between them
\* and threw the fourth attempt's error.
C38_Witness ==
  /\ retry.pc = "threw"
  /\ retry.attempts = <<"500", "500", "500", "500">>
  /\ retry.waits = <<1000, 2000, 4000>>
  /\ retry.out.attempt = 4

\* What tells a position from every other: its pair, its direction, its
\* entry prices and its entry time.
PositionOf(t) ==
  <<t.symbolA, t.symbolB, t.action, t.longPrice, t.shortPrice, t.timestamp>>

\* C34: no step removes a position from the ledger: the ledger never gets
\* shorter, and every place of it keeps the position it holds, open or
\* closed.
C34_PositionsNeverDestroyed ==
  [][/\ Len(tradeHistory') >= Len(tradeHistory)
     /\ \A i \in DOMAIN tradeHistory :
          PositionOf(tradeHistory'[i]) = PositionOf(tradeHistory[i])]_vars

\* The ledger holds a closed position and, after it, a position opened in
\* this run.
C34_Witness ==
  /\ Len(tradeHistory) = 2
  /\ tradeHistory[1].status = "closed"
  /\ ~tradeHistory[2].reloaded
  /\ tradeHistory[2].timestamp >= tradeHistory[1].closeTimestamp

\* C35: a position is closed at most once: no two close calls of the store
\* are in flight for the same position, and none is in flight for a position
\* whose close has already been written.
C35_ClosedAtMostOnce ==
  \A c \in closing :
    /\ tradeHistory[c.idx].status = "open"
    /\ \A d \in closing : d.idx = c.idx => d = c

\* C36: when a handler's checkExitConditions has returned, every position
\* for which that handler called closeTrade has status closed, so that the
\* counts read next do not take it for open.
C36_ExitsClosedAtReturn ==
  \A p \in Procs :
    (cpu = p /\ proc[p].pc = "exitLoop" /\ ExitPassDone(proc[p])) =>
      \A c \in closing : c.by = p => tradeHistory[c.idx].status = "closed"

\* C37: after a position is closed its PnL is never written again: no step
\* changes the upnlPct of a position whose status is closed, and no PnL
\* update of the store is sent for it.
C37_ClosedPnLNeverWritten ==
  [][\A i \in DOMAIN tradeHistory :
       tradeHistory[i].status = "closed" =>
         /\ tradeHistory'[i].upnlPct = tradeHistory[i].upnlPct
         /\ ~(lastStore'.op = "mark" /\ lastStore'.idx = i)]_vars

\* The call of fetchAllMarkets has returned to its caller.
FetchReturned == scan.pc \in {"twap", "done"}

\* C33: fetchAllMarkets never throws; a cached list younger than the TTL is
\* returned without a request; when the request fails, the stale cached list
\* is returned if there is one, and an empty list otherwise.
C33_FetchAllMarketsContract ==
  FetchReturned =>
    /\ ~scan.threw
    /\ Defined(scan.out)
    /\ scan.fresh => ~scan.requested /\ scan.out = scan.had
    /\ (scan.requested /\ scan.failed) =>
         scan.out = (IF Defined(scan.had) THEN scan.had ELSE Just({}))

\* A request made with a cached list older than the TTL failed, and the
\* stale list was returned.
C33_Witness ==
  /\ scan.pc = "done"
  /\ scan.requested /\ scan.failed
  /\ scan.had = Just(PerpSymbols) /\ scan.out = Just(PerpSymbols)

\* The Data API lists the markets and serves their TWAP histories.
ProviderUp == provider = [markets |-> "up", twap |-> PerpSymbols]
\* A scan has received a batch with a pair in it.
NonEmptyBatch ==
  scan.pc = "done" /\ scan.caller = "selector" /\ scan.batch # <<>>

\* C40: the pair selector recovers from a transient outage: once its first
\* use has left it without a market (the list was unavailable or empty, or
\* every TWAP check failed), if the provider comes back for good, a later
\* scan receives a non-empty batch.
C40_SelectorRecovers ==
  (selector.cachedMarkets = Just({}) /\ <>[]ProviderUp) ~> NonEmptyBatch

\* The schedule() calls made so far, and the settlement of a task's promise.
Scheduled == 1..calls
SettledAs(task) == {r \in settled : r.task = task}

\* C39: every task passed to schedule() is eventually started, exactly once,
\* and its promise settles with the task's value or error; the active counter
\* is never negative and is 0 when no task is running.
C39_EveryTaskRunsOnce ==
  /\ [](/\ active >= 0
        /\ running = {} => active = 0
        /\ \A task \in DOMAIN starts :
             /\ starts[task] <= 1
             /\ starts[task] = 1 => task \in Scheduled
             /\ \A r \in SettledAs(task) :
                  /\ starts[task] = 1
                  /\ SettledAs(task) = {r}
                  /\ r.promise = (IF r.gave = "value" THEN "resolved"
                                  ELSE "rejected"))
  /\ \A task \in 1..MaxTasks :
       (task \in Scheduled) ~> (starts[task] = 1 /\ SettledAs(task) # {})

\* MaxTasks tasks were scheduled (more than MAX_CONCURRENCY, so one waited in
\* the queue); all have settled, one of them with an error, and the counter
\* is back to 0.
C39_Witness ==
  /\ calls = MaxTasks
  /\ calls > MAX_CONCURRENCY
  /\ \A task \in Scheduled : starts[task] = 1 /\ SettledAs(task) # {}
  /\ \E r \in settled : r.promise = "rejected"
  /\ active = 0
====
